---- MODULE Spec2Model ----
(***************************************************************************)
(* Model of the transport pipeline of logger.js: the per-sink queue of     *)
(* src/src/transport/transport.ts with its level gate, size-triggered and  *)
(* debounced flushing, requeueing of failed batches and reconfiguration.   *)
(*                                                                         *)
(* A transport is a record; every method of the class is an operator from  *)
(* a transport record (and the method's inputs) to the record after the    *)
(* call together with the error the call raised to its caller.  The sink   *)
(* (the abstract sendBatch) is the environment: each call to it returns    *)
(* normally, throws, or returns a promise that settles later.              *)
(*                                                                         *)
(* The transport manager (src/src/transportManager/transportManager.ts)    *)
(* and the logger (LogClient) work on a heap of such records: a manager is *)
(* the sequence of the identities it has registered, a logger its resolved *)
(* configuration with the registrations of its manager.                    *)
(***************************************************************************)
EXTENDS Integers, Sequences, FiniteSets, TLC

\* ---------------------------------------------------------------- levels
FATAL == 0
ERROR == 1
WARN == 2
INFO == 3
DEBUG == 4
SILENT == 5

Level == FATAL..SILENT

\* `undefined` in a level-typed field (TransportOptions.level is optional)
NoLevel == -1

\* defaults of the Transport constructor
DefaultBatchSize == 10
DefaultDebounceMs == 300

\* value of the timer slot when no debounced flush is pending
NoTimer == -1

\* ---------------------------------------------------------------- bounds
\* entries created over a run
MaxEntries == 2
\* largest debounce interval (in clock ticks) given to a transport
MaxDebounce == 2
\* largest batch size given to a transport
MaxBatch == 3

Max(a, b) == IF a >= b THEN a ELSE b
Min(a, b) == IF a <= b THEN a ELSE b

\* the clock of the observer stops counting here
TimeCap == MaxDebounce

\* ---------------------------------------------------------------- inputs
\* levels carried by the entries handed to addLogToQueue
EntryLevels == {WARN, DEBUG}

\* what one call of sendBatch does: return, throw, or return a promise
SinkOutcomes == {"ok", "throw", "async"}

NoEntry == [id |-> 0, level |-> FATAL]
NoOpts == [k \in {} |-> 0]

Has(o, k) == k \in DOMAIN o

\* option objects given to the constructor
ConstructorInputs ==
     {[batchSize |-> b, debounceMs |-> d, level |-> WARN, enabled |-> "true", label |-> "t"] :
          b \in {-5, MaxBatch - 1}, d \in {-100, MaxDebounce - 1}}
\cup {[label |-> "t", batchSize |-> 2, debounceMs |-> 1],
      [label |-> "t", batchSize |-> 2, debounceMs |-> 1, enabled |-> "false"],
      [batchSize |-> 2, debounceMs |-> 1, level |-> WARN]}

\* option objects given to configure
ConfigureInputs ==
     {[batchSize |-> b] : b \in {-5, MaxBatch}}
\cup {[debounceMs |-> d] : d \in {-100, MaxDebounce}}
\cup {[level |-> WARN], [enabled |-> "false"], NoOpts}

\* levels given to setLogLevel
SetLevelInputs == {WARN, SILENT}

\* ------------------------------------------------------------ level gate
\* mutant: the SILENT sentinel is not checked
shouldPublishLog_NoSilent(currentLevel, logLevel) == logLevel <= currentLevel

shouldPublishLog(currentLevel, logLevel) ==
    IF currentLevel = SILENT THEN FALSE ELSE logLevel <= currentLevel

\* ------------------------------------------------------------- debounce
\* debounce(fn, wait): one pending slot; a call (re)starts the window of
\* `wait` ticks, cancel clears the slot.
\* mutant: a call while a flush is pending does not restart the window
debouncedFlush_NoRestart(t) ==
    [t EXCEPT !.timer = IF t.timer = NoTimer THEN t.wait ELSE t.timer]

debouncedFlush(t) == [t EXCEPT !.timer = t.wait]

cancel(t) == [t EXCEPT !.timer = NoTimer]

\* ------------------------------------------------------------ transport
\* A transport: its options, the live queue, the debounced function (its
\* interval `wait` and its pending slot `timer`), the batches whose promise
\* is still pending (`inflight`, in the order of the sink calls) and, as the
\* history of its sink, the entries delivered successfully (`delivered`).
Constructor(options) ==
    [batchSize  |-> Max(1, IF Has(options, "batchSize") THEN options.batchSize ELSE DefaultBatchSize),
     debounceMs |-> Max(0, IF Has(options, "debounceMs") THEN options.debounceMs ELSE DefaultDebounceMs),
     level      |-> IF Has(options, "level") THEN options.level ELSE NoLevel,
     enabled    |-> IF Has(options, "enabled") THEN options.enabled ELSE "undefined",
     label      |-> IF Has(options, "label") THEN options.label ELSE "",
     queue      |-> <<>>,
     wait       |-> Max(0, IF Has(options, "debounceMs") THEN options.debounceMs ELSE DefaultDebounceMs),
     timer      |-> NoTimer,
     inflight   |-> <<>>,
     delivered  |-> <<>>]

\* TRUE when the option is set, i.e. when assertOptionIsSet does not throw
assertOptionIsSet(t, key) ==
    CASE key = "level"   -> t.level # NoLevel
      [] key = "enabled" -> t.enabled # "undefined"
      [] OTHER           -> TRUE

\* The result of a call on a transport: the transport after the call, the
\* error raised to the caller and the calls of sendBatch it made, each with
\* the batch handed over and what the sink did with it.
Result(t, err, sent) == [t |-> t, err |-> err, sent |-> sent]

Sent(batch, outcome) == <<[batch |-> batch, outcome |-> outcome]>>

\* `get options()`: raises unless level and enabled are set
getOptions(t) ==
    IF ~assertOptionIsSet(t, "level") THEN Result(t, "config", <<>>)
    ELSE IF ~assertOptionIsSet(t, "enabled") THEN Result(t, "config", <<>>)
    ELSE Result(t, "none", <<>>)

\* mutant: a batch whose delivery throws is not put back in the queue
performFlush_DropOnThrow(t, outcome) ==
    IF Len(t.queue) = 0
    THEN Result(t, "none", <<>>)
    ELSE LET logsToSend == t.queue
             emptied    == [t EXCEPT !.queue = <<>>]
         IN CASE outcome = "ok" ->
                   Result([emptied EXCEPT !.delivered = @ \o logsToSend], "none", Sent(logsToSend, outcome))
              [] outcome = "async" ->
                   Result([emptied EXCEPT !.inflight = Append(@, logsToSend)], "none", Sent(logsToSend, outcome))
              [] outcome = "throw" ->
                   Result(emptied, "none", Sent(logsToSend, outcome))

\* mutant: no try/catch around sendBatch, a throw reaches the caller
performFlush_NoCatch(t, outcome) ==
    IF Len(t.queue) = 0
    THEN Result(t, "none", <<>>)
    ELSE LET logsToSend == t.queue
             emptied    == [t EXCEPT !.queue = <<>>]
         IN CASE outcome = "ok" ->
                   Result([emptied EXCEPT !.delivered = @ \o logsToSend], "none", Sent(logsToSend, outcome))
              [] outcome = "async" ->
                   Result([emptied EXCEPT !.inflight = Append(@, logsToSend)], "none", Sent(logsToSend, outcome))
              [] outcome = "throw" ->
                   Result(emptied, "sink", Sent(logsToSend, outcome))

\* mutant: the live queue is not replaced by an empty one
performFlush_KeepQueue(t, outcome) ==
    IF Len(t.queue) = 0
    THEN Result(t, "none", <<>>)
    ELSE LET logsToSend == t.queue
         IN CASE outcome = "ok" ->
                   Result([t EXCEPT !.delivered = @ \o logsToSend], "none", Sent(logsToSend, outcome))
              [] outcome = "async" ->
                   Result([t EXCEPT !.inflight = Append(@, logsToSend)], "none", Sent(logsToSend, outcome))
              [] outcome = "throw" ->
                   Result(t, "none", Sent(logsToSend, outcome))

\* The flush procedure; `outcome` is what this call of sendBatch does.
performFlush(t, outcome) ==
    IF Len(t.queue) = 0
    THEN Result(t, "none", <<>>)
    ELSE LET logsToSend == t.queue
             emptied    == [t EXCEPT !.queue = <<>>]
         IN CASE outcome = "ok" ->
                   Result([emptied EXCEPT !.delivered = @ \o logsToSend], "none", Sent(logsToSend, outcome))
              [] outcome = "async" ->
                   Result([emptied EXCEPT !.inflight = Append(@, logsToSend)], "none", Sent(logsToSend, outcome))
              [] outcome = "throw" ->
                   Result([emptied EXCEPT !.queue = logsToSend \o emptied.queue], "none", Sent(logsToSend, outcome))

Remove(seq, k) == SubSeq(seq, 1, k - 1) \o SubSeq(seq, k + 1, Len(seq))

\* mutant: a rejection schedules a retry of the requeued batch
settle_Retry(t, k, fulfilled) ==
    IF fulfilled
    THEN [t EXCEPT !.inflight = Remove(@, k),
                   !.delivered = @ \o t.inflight[k]]
    ELSE debouncedFlush([t EXCEPT !.inflight = Remove(@, k),
                                  !.queue = t.inflight[k] \o @])

\* mutant: a rejected batch is pushed behind the live queue
settle_Push(t, k, fulfilled) ==
    IF fulfilled
    THEN [t EXCEPT !.inflight = Remove(@, k),
                   !.delivered = @ \o t.inflight[k]]
    ELSE [t EXCEPT !.inflight = Remove(@, k),
                   !.queue = @ \o t.inflight[k]]

\* The promise returned for the k-th batch in flight settles; on rejection
\* the catch handler puts the batch back in front of the live queue.
settle(t, k, fulfilled) ==
    IF fulfilled
    THEN [t EXCEPT !.inflight = Remove(@, k),
                   !.delivered = @ \o t.inflight[k]]
    ELSE [t EXCEPT !.inflight = Remove(@, k),
                   !.queue = t.inflight[k] \o @]

\* mutant: the batch threshold is compared with > instead of >=
addLogToQueue_OffByOne(t, entry, outcome) ==
    IF ~assertOptionIsSet(t, "level")
    THEN Result(t, "config", <<>>)
    ELSE IF t.enabled # "true"
    THEN Result(t, "none", <<>>)
    ELSE IF ~shouldPublishLog(t.level, entry.level)
    THEN Result(t, "none", <<>>)
    ELSE LET pushed == [t EXCEPT !.queue = Append(@, entry)]
         IN IF Len(pushed.queue) > pushed.batchSize
            THEN performFlush(cancel(pushed), outcome)
            ELSE Result(debouncedFlush(pushed), "none", <<>>)

addLogToQueue(t, entry, outcome) ==
    IF ~assertOptionIsSet(t, "level")
    THEN Result(t, "config", <<>>)
    ELSE IF t.enabled # "true"
    THEN Result(t, "none", <<>>)
    ELSE IF ~shouldPublishLog(t.level, entry.level)
    THEN Result(t, "none", <<>>)
    ELSE LET pushed == [t EXCEPT !.queue = Append(@, entry)]
         IN IF Len(pushed.queue) >= pushed.batchSize
            THEN performFlush(cancel(pushed), outcome)
            ELSE Result(debouncedFlush(pushed), "none", <<>>)

\* mutant: the pending debounced flush is not cancelled
flush_NoCancel(t, outcome) == performFlush(t, outcome)

flush(t, outcome) == performFlush(cancel(t), outcome)

\* mutant: batchSize is stored as given
configure_NoClamp(t, options) ==
    LET oldDebounceMs == t.debounceMs
        merged == [t EXCEPT
            !.label      = IF Has(options, "label") THEN options.label ELSE @,
            !.level      = IF Has(options, "level") THEN options.level ELSE @,
            !.enabled    = IF Has(options, "enabled") THEN options.enabled ELSE @,
            !.batchSize  = IF Has(options, "batchSize") THEN options.batchSize ELSE @,
            !.debounceMs = Max(0, IF Has(options, "debounceMs") THEN options.debounceMs ELSE @)]
    IN IF Has(options, "debounceMs") /\ oldDebounceMs # merged.debounceMs
       THEN [cancel(merged) EXCEPT !.wait = merged.debounceMs]
       ELSE merged

\* mutant: a changed debounceMs leaves the pending flush armed
configure_KeepPending(t, options) ==
    LET oldDebounceMs == t.debounceMs
        merged == [t EXCEPT
            !.label      = IF Has(options, "label") THEN options.label ELSE @,
            !.level      = IF Has(options, "level") THEN options.level ELSE @,
            !.enabled    = IF Has(options, "enabled") THEN options.enabled ELSE @,
            !.batchSize  = Max(1, IF Has(options, "batchSize") THEN options.batchSize ELSE @),
            !.debounceMs = Max(0, IF Has(options, "debounceMs") THEN options.debounceMs ELSE @)]
    IN IF Has(options, "debounceMs") /\ oldDebounceMs # merged.debounceMs
       THEN [merged EXCEPT !.wait = merged.debounceMs]
       ELSE merged

configure(t, options) ==
    LET oldDebounceMs == t.debounceMs
        merged == [t EXCEPT
            !.label      = IF Has(options, "label") THEN options.label ELSE @,
            !.level      = IF Has(options, "level") THEN options.level ELSE @,
            !.enabled    = IF Has(options, "enabled") THEN options.enabled ELSE @,
            !.batchSize  = Max(1, IF Has(options, "batchSize") THEN options.batchSize ELSE @),
            !.debounceMs = Max(0, IF Has(options, "debounceMs") THEN options.debounceMs ELSE @)]
    IN IF Has(options, "debounceMs") /\ oldDebounceMs # merged.debounceMs
       THEN [cancel(merged) EXCEPT !.wait = merged.debounceMs]
       ELSE merged

\* mutant: the new level is applied to the entries already queued
setLogLevel_Retroactive(t, level) ==
    [t EXCEPT !.level = level,
              !.queue = SelectSeq(@, LAMBDA e : shouldPublishLog(level, e.level))]

setLogLevel(t, level) == [t EXCEPT !.level = level]

enable(t) == [t EXCEPT !.enabled = "true"]

\* mutant: disable only clears the flag
disable_NoFlush(t, outcome) == Result([t EXCEPT !.enabled = "false"], "none", <<>>)

disable(t, outcome) == flush([t EXCEPT !.enabled = "false"], outcome)

destroy(t, outcome) ==
    LET flushed == flush(t, outcome)
    IN Result(cancel(flushed.t), flushed.err, flushed.sent)

\* ---------------------------------------------------------------- state
VARIABLES
    tp,           \* the transport
    nextId,       \* sequence number of the next entry the caller creates
    sinceAccept,  \* ticks since addLogToQueue last accepted an entry
    lastOp,       \* the step taken last: operation, inputs, error raised to
                  \* the caller, sink calls made, batch whose promise settled
    heap,         \* the transport objects a manager can refer to, by identity
    mgr,          \* TransportManager.transports: identities, in registration order
    mgrOp,        \* the manager call made last: inputs, transport calls, error
    loggers,      \* the LogClient objects constructed so far
    warnings,     \* number of no-transport warnings printed
    logOp,        \* the LogClient call made last
    fnCall        \* the call of a function of the library made last

vars == <<tp, nextId, sinceAccept, lastOp, heap, mgr, mgrOp, loggers, warnings, logOp, fnCall>>

\* the objects a specification of the single transport does not use
managerVars == <<heap, mgr, mgrOp>>
loggerVars == <<loggers, warnings, logOp, fnCall>>

NoMgrOp == [op |-> "none", id |-> 0, entry |-> NoEntry, opts |-> NoOpts, calls |-> <<>>, err |-> "none"]
NoLogOp == [op |-> "none", logger |-> 0, config |-> NoOpts, level |-> NoLevel, calls |-> <<>>, err |-> "none"]

NoManager == heap = <<>> /\ mgr = <<>> /\ mgrOp = NoMgrOp
\* no function of the library has been called
NoCall == [fn |-> "none", args |-> <<>>, result |-> <<>>, err |-> "none", message |-> <<>>]

NoLoggers == loggers = <<>> /\ warnings = 0 /\ logOp = NoLogOp /\ fnCall = NoCall

Op(name, entry, opts, r) ==
    [op |-> name, entry |-> entry, opts |-> opts, err |-> r.err, sent |-> r.sent,
     settled |-> <<>>]

Quiet(t) == Result(t, "none", <<>>)

Init ==
    /\ \E o \in ConstructorInputs : tp = Constructor(o)
    /\ nextId = 1
    /\ sinceAccept = TimeCap
    /\ lastOp = Op("new", NoEntry, NoOpts, Quiet(tp))
    /\ NoManager
    /\ NoLoggers

AddLogToQueue ==
    \E lvl \in EntryLevels, outcome \in SinkOutcomes :
        LET entry == [id |-> nextId, level |-> lvl]
            r == addLogToQueue(tp, entry, outcome)
            accepted == r.t # tp
        IN /\ nextId <= MaxEntries
           /\ tp' = r.t
           /\ nextId' = IF accepted THEN nextId + 1 ELSE nextId
           /\ sinceAccept' = IF accepted THEN 0 ELSE sinceAccept
           /\ lastOp' = Op("addLogToQueue", entry, NoOpts, r)
           /\ UNCHANGED <<managerVars, loggerVars>>

Flush ==
    \E outcome \in SinkOutcomes :
        LET r == flush(tp, outcome)
        IN /\ tp' = r.t
           /\ lastOp' = Op("flush", NoEntry, NoOpts, r)
           /\ UNCHANGED <<nextId, sinceAccept>>
           /\ UNCHANGED <<managerVars, loggerVars>>

Configure ==
    \E o \in ConfigureInputs :
        /\ tp' = configure(tp, o)
        /\ lastOp' = Op("configure", NoEntry, o, Quiet(tp))
        /\ UNCHANGED <<nextId, sinceAccept>>
        /\ UNCHANGED <<managerVars, loggerVars>>

SetLogLevel ==
    \E l \in SetLevelInputs :
        /\ tp' = setLogLevel(tp, l)
        /\ lastOp' = Op("setLogLevel", NoEntry, [level |-> l], Quiet(tp))
        /\ UNCHANGED <<nextId, sinceAccept>>
        /\ UNCHANGED <<managerVars, loggerVars>>

Enable ==
    /\ tp' = enable(tp)
    /\ lastOp' = Op("enable", NoEntry, NoOpts, Quiet(tp))
    /\ UNCHANGED <<nextId, sinceAccept>>
    /\ UNCHANGED <<managerVars, loggerVars>>

Disable ==
    \E outcome \in SinkOutcomes :
        LET r == disable(tp, outcome)
        IN /\ tp' = r.t
           /\ lastOp' = Op("disable", NoEntry, NoOpts, r)
           /\ UNCHANGED <<nextId, sinceAccept>>
           /\ UNCHANGED <<managerVars, loggerVars>>

Destroy ==
    \E outcome \in SinkOutcomes :
        LET r == destroy(tp, outcome)
        IN /\ tp' = r.t
           /\ lastOp' = Op("destroy", NoEntry, NoOpts, r)
           /\ UNCHANGED <<nextId, sinceAccept>>
           /\ UNCHANGED <<managerVars, loggerVars>>

\* the debounce window ends: the debounced function runs performFlush
TimerFire ==
    \E outcome \in SinkOutcomes :
        LET r == performFlush(cancel(tp), outcome)
        IN /\ tp.timer = 0
           /\ tp' = r.t
           /\ lastOp' = Op("timer", NoEntry, NoOpts, r)
           /\ UNCHANGED <<nextId, sinceAccept>>
           /\ UNCHANGED <<managerVars, loggerVars>>

\* one unit of time passes; a due timer fires before time moves on
Tick ==
    /\ tp.timer # 0
    /\ tp' = [tp EXCEPT !.timer = IF @ > 0 THEN @ - 1 ELSE @]
    /\ sinceAccept' = Min(TimeCap, sinceAccept + 1)
    /\ lastOp' = Op("tick", NoEntry, NoOpts, Quiet(tp))
    /\ UNCHANGED nextId
    /\ UNCHANGED <<managerVars, loggerVars>>

\* the promise of a delivery in flight is fulfilled
Resolve ==
    \E k \in 1..Len(tp.inflight) :
        /\ tp' = settle(tp, k, TRUE)
        /\ lastOp' = [Op("resolve", NoEntry, NoOpts, Quiet(tp)) EXCEPT !.settled = tp.inflight[k]]
        /\ UNCHANGED <<nextId, sinceAccept>>
        /\ UNCHANGED <<managerVars, loggerVars>>

\* the promise of a delivery in flight is rejected: the catch handler runs
Reject ==
    \E k \in 1..Len(tp.inflight) :
        /\ tp' = settle(tp, k, FALSE)
        /\ lastOp' = [Op("reject", NoEntry, NoOpts, Quiet(tp)) EXCEPT !.settled = tp.inflight[k]]
        /\ UNCHANGED <<nextId, sinceAccept>>
        /\ UNCHANGED <<managerVars, loggerVars>>

Next ==
    \/ AddLogToQueue
    \/ Flush
    \/ Configure
    \/ SetLogLevel
    \/ Enable
    \/ Disable
    \/ Destroy
    \/ TimerFire
    \/ Tick
    \/ Resolve
    \/ Reject

Spec == Init /\ [][Next]_vars

\* a transport on which destroy() has just returned
InitDestroyed ==
    /\ \E o \in ConstructorInputs, outcome \in SinkOutcomes :
           LET r == destroy(Constructor(o), outcome)
           IN /\ tp = r.t
              /\ lastOp = Op("destroy", NoEntry, NoOpts, r)
    /\ nextId = 1
    /\ sinceAccept = TimeCap
    /\ NoManager
    /\ NoLoggers

SpecDestroyed == InitDestroyed /\ [][Next]_vars

\* ------------------------------------------- transport: unresolved options
\* option objects of a transport constructed by hand: level and enabled
\* given or left out
UnsetInputs ==
    {[k \in D |-> [level |-> WARN, enabled |-> e, label |-> "t", batchSize |-> 2, debounceMs |-> 1][k]] :
         D \in {{"label", "batchSize", "debounceMs"} \cup K : K \in SUBSET {"level", "enabled"}},
         e \in {"true", "false"}}

InitUnset ==
    /\ \E o \in UnsetInputs : tp = Constructor(o)
    /\ nextId = 1
    /\ sinceAccept = TimeCap
    /\ lastOp = Op("new", NoEntry, NoOpts, Quiet(tp))
    /\ NoManager
    /\ NoLoggers

\* the `options` getter is read
Options ==
    LET r == getOptions(tp)
    IN /\ tp' = r.t
       /\ lastOp' = Op("options", NoEntry, NoOpts, r)
       /\ UNCHANGED <<nextId, sinceAccept>>
       /\ UNCHANGED <<managerVars, loggerVars>>

NextUnset ==
    \/ Options
    \/ AddLogToQueue
    \/ SetLogLevel
    \/ Enable
    \/ TimerFire
    \/ Tick

SpecUnset == InitUnset /\ [][NextUnset]_vars

\* ======================================================= transport manager
\* `undefined` in the label field (a configure() whose label is undefined)
NoLabel == "<undefined>"

\* largest number of registrations held by a manager
MaxRegistered == 3
\* entries handed to a manager over a run
MaxBroadcasts == 1

\* option objects of the transports handed to a manager
ManagedTransportInputs ==
    {[batchSize |-> 2, debounceMs |-> 1],
     [batchSize |-> 2, debounceMs |-> 1, level |-> WARN, enabled |-> "true"],
     [batchSize |-> 1, debounceMs |-> 1, label |-> "t", level |-> WARN, enabled |-> "false"],
     [batchSize |-> 1, debounceMs |-> 1, label |-> "t", level |-> DEBUG, enabled |-> "true"]}

\* the transports of a manager whose entries are followed to the sinks
ManagedHeaps ==
    {<<Constructor([batchSize |-> 2, debounceMs |-> 1]),
       Constructor([batchSize |-> 1, debounceMs |-> 1, label |-> "t", level |-> WARN, enabled |-> "true"])>>,
     <<Constructor([batchSize |-> 2, debounceMs |-> 1, level |-> WARN, enabled |-> "true"]),
       Constructor([batchSize |-> 1, debounceMs |-> 1, label |-> "t", level |-> DEBUG, enabled |-> "false"])>>}

\* levels given to the setLogLevel of a manager
ManagedLevelInputs == {SILENT}

\* partial option objects given to injectOptions
InjectInputs ==
    {[label |-> "L", level |-> DEBUG, enabled |-> "true"],
     [level |-> DEBUG],
     [label |-> "L"],
     [enabled |-> "false"]}

\* what the sink of each transport does during one call of the manager
ManagedOutcomes == {"ok", "throw"}

\* result of a manager method: the transports and the registrations after
\* the call, the transport methods it called (in order), the error raised
Managed(h, transports, calls, err) ==
    [heap |-> h, transports |-> transports, calls |-> calls, err |-> err]

Call(id, name, r) == [id |-> id, op |-> name, err |-> r.err]

\* Array.prototype.indexOf: first position of id, 0 when absent
RECURSIVE indexOf(_, _, _)
indexOf(transports, id, i) ==
    IF i > Len(transports) THEN 0
    ELSE IF transports[i] = id THEN i
    ELSE indexOf(transports, id, i + 1)

tm_add(h, transports, id) == Managed(h, Append(transports, id), <<>>, "none")

\* mutant: every registration of the transport is removed
tm_remove_All(h, transports, id, outcome) ==
    IF indexOf(transports, id, 1) > 0
    THEN LET r == destroy(h[id], outcome)
         IN Managed([h EXCEPT ![id] = r.t],
                    SelectSeq(transports, LAMBDA x : x # id),
                    <<Call(id, "destroy", r)>>, r.err)
    ELSE Managed(h, transports, <<>>, "none")

tm_remove(h, transports, id, outcome) ==
    LET index == indexOf(transports, id, 1)
    IN IF index > 0
       THEN LET r == destroy(h[id], outcome)
            IN Managed([h EXCEPT ![id] = r.t], Remove(transports, index),
                       <<Call(id, "destroy", r)>>, r.err)
       ELSE Managed(h, transports, <<>>, "none")

\* the method a broadcast calls on one transport
callTransport(t, name, entry, level, outcome) ==
    CASE name = "addLogToQueue" -> addLogToQueue(t, entry, outcome)
      [] name = "flush"         -> flush(t, outcome)
      [] name = "setLogLevel"   -> Quiet(setLogLevel(t, level))
      [] name = "destroy"       -> destroy(t, outcome)

\* mutant: a transport registered more than once is called once
RECURSIVE forEach_Distinct(_, _, _, _, _, _, _)
forEach_Distinct(h, transports, i, name, entry, level, outs) ==
    IF i > Len(transports) THEN Managed(h, transports, <<>>, "none")
    ELSE IF indexOf(transports, transports[i], 1) < i
    THEN forEach_Distinct(h, transports, i + 1, name, entry, level, outs)
    ELSE LET id == transports[i]
             r == callTransport(h[id], name, entry, level, outs[id])
             h2 == [h EXCEPT ![id] = r.t]
         IN IF r.err # "none"
            THEN Managed(h2, transports, <<Call(id, name, r)>>, r.err)
            ELSE LET rest == forEach_Distinct(h2, transports, i + 1, name, entry, level, outs)
                 IN Managed(rest.heap, transports, <<Call(id, name, r)>> \o rest.calls, rest.err)

\* `for (const transport of this.transports) transport.<name>(...)`, from
\* position i on; an error raised by a transport ends the loop
RECURSIVE forEach(_, _, _, _, _, _, _)
forEach(h, transports, i, name, entry, level, outs) ==
    IF i > Len(transports) THEN Managed(h, transports, <<>>, "none")
    ELSE LET id == transports[i]
             r == callTransport(h[id], name, entry, level, outs[id])
             h2 == [h EXCEPT ![id] = r.t]
         IN IF r.err # "none"
            THEN Managed(h2, transports, <<Call(id, name, r)>>, r.err)
            ELSE LET rest == forEach(h2, transports, i + 1, name, entry, level, outs)
                 IN Managed(rest.heap, transports, <<Call(id, name, r)>> \o rest.calls, rest.err)

tm_addLogToQueue(h, transports, entry, outs) ==
    forEach(h, transports, 1, "addLogToQueue", entry, NoLevel, outs)

tm_flush(h, transports, outs) ==
    forEach(h, transports, 1, "flush", NoEntry, NoLevel, outs)

tm_setLogLevel(h, transports, level, outs) ==
    forEach(h, transports, 1, "setLogLevel", NoEntry, level, outs)

tm_destroy(h, transports, outs) ==
    LET r == forEach(h, transports, 1, "destroy", NoEntry, NoLevel, outs)
    IN IF r.err # "none" THEN r ELSE Managed(r.heap, <<>>, r.calls, "none")

\* the value of options[k], `undefined` when the object has no such key
optionOrUndefined(options, k) ==
    IF Has(options, k) THEN options[k]
    ELSE CASE k = "label" -> NoLabel [] k = "level" -> NoLevel [] k = "enabled" -> "undefined"

\* mutant: the label is injected whatever label the transport has
appliedOptions_AnyLabel(t, options) ==
    LET keys == {"label"}
             \cup (IF t.enabled = "undefined" THEN {"enabled"} ELSE {})
             \cup (IF t.level = NoLevel THEN {"level"} ELSE {})
    IN [k \in keys |-> optionOrUndefined(options, k)]

\* the object injectOptions builds for one transport
appliedOptions(t, options) ==
    LET keys == (IF t.label = "" THEN {"label"} ELSE {})
             \cup (IF t.enabled = "undefined" THEN {"enabled"} ELSE {})
             \cup (IF t.level = NoLevel THEN {"level"} ELSE {})
    IN [k \in keys |-> optionOrUndefined(options, k)]

RECURSIVE injectFrom(_, _, _, _)
injectFrom(h, transports, i, options) ==
    IF i > Len(transports) THEN Managed(h, transports, <<>>, "none")
    ELSE LET id == transports[i]
             applied == appliedOptions(h[id], options)
             h2 == [h EXCEPT ![id] = configure(@, applied)]
             rest == injectFrom(h2, transports, i + 1, options)
         IN Managed(rest.heap, transports,
                    <<[id |-> id, op |-> "configure", err |-> "none"]>> \o rest.calls, "none")

tm_injectOptions(h, transports, options) == injectFrom(h, transports, 1, options)

\* ------------------------------------------------- manager: state machine
MgrOp(name, id, entry, opts, r) ==
    [op |-> name, id |-> id, entry |-> entry, opts |-> opts, calls |-> r.calls, err |-> r.err]

IdleTransport ==
    /\ tp = Constructor(NoOpts)
    /\ sinceAccept = TimeCap
    /\ lastOp = Op("none", NoEntry, NoOpts, Quiet(tp))

\* an empty manager and two transports constructed by its user
InitMgr ==
    /\ heap \in ManagedHeaps
    /\ mgr = <<>>
    /\ mgrOp = NoMgrOp
    /\ nextId = 1
    /\ IdleTransport
    /\ NoLoggers

MgrDone(name, id, entry, opts, r) ==
    /\ heap' = r.heap
    /\ mgr' = r.transports
    /\ mgrOp' = MgrOp(name, id, entry, opts, r)
    /\ UNCHANGED <<tp, sinceAccept, lastOp, loggerVars>>

MgrAdd ==
    \E id \in 1..Len(heap) :
        /\ Len(mgr) < MaxRegistered
        /\ MgrDone("add", id, NoEntry, NoOpts, tm_add(heap, mgr, id))
        /\ UNCHANGED nextId

MgrRemove ==
    \E id \in 1..Len(heap), outcome \in ManagedOutcomes :
        /\ MgrDone("remove", id, NoEntry, NoOpts, tm_remove(heap, mgr, id, outcome))
        /\ UNCHANGED nextId

MgrAddLogToQueue ==
    \E lvl \in EntryLevels, outs \in [1..Len(heap) -> ManagedOutcomes] :
        LET entry == [id |-> nextId, level |-> lvl]
        IN /\ nextId <= MaxBroadcasts
           /\ MgrDone("addLogToQueue", 0, entry, NoOpts, tm_addLogToQueue(heap, mgr, entry, outs))
           /\ nextId' = nextId + 1

MgrFlush ==
    \E outs \in [1..Len(heap) -> ManagedOutcomes] :
        /\ MgrDone("flush", 0, NoEntry, NoOpts, tm_flush(heap, mgr, outs))
        /\ UNCHANGED nextId

MgrSetLogLevel ==
    \E l \in ManagedLevelInputs, outs \in [1..Len(heap) -> ManagedOutcomes] :
        /\ MgrDone("setLogLevel", 0, NoEntry, [level |-> l], tm_setLogLevel(heap, mgr, l, outs))
        /\ UNCHANGED nextId

MgrDestroy ==
    \E outs \in [1..Len(heap) -> ManagedOutcomes] :
        /\ MgrDone("destroy", 0, NoEntry, NoOpts, tm_destroy(heap, mgr, outs))
        /\ UNCHANGED nextId

MgrInjectOptions ==
    \E o \in InjectInputs :
        /\ MgrDone("injectOptions", 0, NoEntry, o, tm_injectOptions(heap, mgr, o))
        /\ UNCHANGED nextId

\* registration and broadcast
NextMgr ==
    \/ MgrAdd
    \/ MgrRemove
    \/ MgrAddLogToQueue
    \/ MgrFlush
    \/ MgrSetLogLevel
    \/ MgrDestroy

SpecMgr == InitMgr /\ [][NextMgr]_vars

\* an empty manager and two transports constructed with any of the inputs
InitInject ==
    /\ \E a, b \in ManagedTransportInputs : heap = <<Constructor(a), Constructor(b)>>
    /\ mgr = <<>>
    /\ mgrOp = NoMgrOp
    /\ nextId = 1
    /\ IdleTransport
    /\ NoLoggers

\* registration and injection of options
NextInject ==
    \/ MgrAdd
    \/ MgrSetLogLevel
    \/ MgrInjectOptions

SpecInject == InitInject /\ [][NextInject]_vars

\* ------------------------------------------ manager: two transports in time
\* entries fanned out in one run
MaxFanEntries == 2

\* option objects of the first and of the second registered transport
FanoutFirstInputs ==
    {[label |-> "t1", level |-> WARN, enabled |-> "true", batchSize |-> 1, debounceMs |-> 0],
     [label |-> "t1", level |-> WARN, enabled |-> "true", batchSize |-> 2, debounceMs |-> 1]}
FanoutSecondInputs ==
    {[label |-> "t2", level |-> DEBUG, enabled |-> "true", batchSize |-> 2, debounceMs |-> 2]}

\* a manager over two transports constructed by its user
InitFanout ==
    /\ \E a \in FanoutFirstInputs, b \in FanoutSecondInputs :
           heap = <<Constructor(a) @@ [hideMeta |-> FALSE], Constructor(b) @@ [hideMeta |-> FALSE]>>
    /\ mgr = <<1, 2>>
    /\ mgrOp = NoMgrOp
    /\ nextId = 1
    /\ IdleTransport
    /\ NoLoggers

\* what one transport did by itself, outside a call of the manager
FanDone(name, id, t) ==
    /\ heap' = [heap EXCEPT ![id] = t]
    /\ mgrOp' = MgrOp(name, id, NoEntry, NoOpts, Managed(heap, mgr, <<>>, "none"))
    /\ UNCHANGED <<mgr, nextId, tp, sinceAccept, lastOp, loggerVars>>

FanAddLogToQueue ==
    \E lvl \in EntryLevels, outs \in [1..Len(heap) -> SinkOutcomes] :
        LET entry == [id |-> nextId, level |-> lvl]
        IN /\ nextId <= MaxFanEntries
           /\ MgrDone("addLogToQueue", 0, entry, [outs |-> outs],
                      tm_addLogToQueue(heap, mgr, entry, outs))
           /\ nextId' = nextId + 1

\* the debounce timer of one transport expires
FanTimerFire ==
    \E id \in 1..Len(heap), outcome \in SinkOutcomes :
        /\ heap[id].timer = 0
        /\ FanDone("timer", id, performFlush(cancel(heap[id]), outcome).t)

\* one unit of time passes for every transport; due timers fire first
FanTick ==
    /\ \A id \in 1..Len(heap) : heap[id].timer # 0
    /\ \E id \in 1..Len(heap) : heap[id].timer > 0
    /\ heap' = [id \in 1..Len(heap) |-> [heap[id] EXCEPT !.timer = IF @ > 0 THEN @ - 1 ELSE @]]
    /\ mgrOp' = MgrOp("tick", 0, NoEntry, NoOpts, Managed(heap, mgr, <<>>, "none"))
    /\ UNCHANGED <<mgr, nextId, tp, sinceAccept, lastOp, loggerVars>>

\* the promise of a delivery in flight of one transport is fulfilled
FanResolve ==
    \E id \in 1..Len(heap) : \E k \in 1..Len(heap[id].inflight) :
        FanDone("resolve", id, settle(heap[id], k, TRUE))

\* the promise of a delivery in flight of one transport is rejected
FanReject ==
    \E id \in 1..Len(heap) : \E k \in 1..Len(heap[id].inflight) :
        FanDone("reject", id, settle(heap[id], k, FALSE))

NextFanout ==
    \/ FanAddLogToQueue
    \/ FanTimerFire
    \/ FanTick
    \/ FanResolve
    \/ FanReject

SpecFanout == InitFanout /\ [][NextFanout]_vars

\* ================================================================= logger
\* label a LogClient takes when it is given none
DefaultLabel == "LogClient"

\* LogClient objects constructed over a run
MaxLoggers == 1
\* calls of logging methods over a run
MaxLogCalls == 1

\* ---------------------------------------------------------------- metadata
\* A metadata value is its JavaScript type, its String(value) and its
\* JSON.stringify(value) (JsonThrows when the serialization throws).
JsonThrows == "<throws>"

MetaValue(type, text, json) == [type |-> type, text |-> text, json |-> json]
StringValue(s) == MetaValue("string", s, s)
NumberValue(s) == MetaValue("number", s, s)
ObjectValue(json) == MetaValue("object", "[object Object]", json)

\* `!value`
isFalsy(v) ==
    \/ v.type \in {"null", "undefined"}
    \/ v.type = "number" /\ v.text \in {"0", "NaN"}
    \/ v.type = "string" /\ v.text = ""
    \/ v.type = "boolean" /\ v.text = "false"

sanitizeValue(v) ==
    IF isFalsy(v) THEN v
    ELSE IF v.type \in {"string", "number", "boolean"} THEN v
    ELSE IF v.type \in {"function", "symbol"} THEN StringValue(v.text)
    ELSE IF v.json # JsonThrows THEN StringValue(v.json)
    ELSE StringValue(v.text)

\* String(value) raises a TypeError (an object with neither toString nor
\* valueOf, such as one created with Object.create(null))
StringThrows == "<String throws>"

\* the value makes the loop body raise: JSON.stringify throws and, in the
\* catch block, String(value) throws as well
sanitizeValueThrows(v) ==
    /\ ~isFalsy(v)
    /\ v.type \notin {"string", "number", "boolean", "function", "symbol"}
    /\ v.json = JsonThrows
    /\ v.text = StringThrows

\* LogClient.sanitizeLogMeta raises on the metadata object
sanitizeLogMetaThrows(rawMeta) == \E k \in DOMAIN rawMeta : sanitizeValueThrows(rawMeta[k])

\* LogClient.sanitizeLogMeta on the entries of a metadata object
sanitizeLogMeta(rawMeta) == [k \in DOMAIN rawMeta |-> sanitizeValue(rawMeta[k])]

\* an optional metadata object: undefined, or defined with its entries
NoMeta == [defined |-> FALSE, map |-> NoOpts]
Meta(map) == [defined |-> TRUE, map |-> map]

\* {...defaultMeta, ...meta}
spread(a, b) == [k \in DOMAIN a \cup DOMAIN b |-> IF k \in DOMAIN b THEN b[k] ELSE a[k]]

\* mutant: on a key of both objects the default value is kept
mergedMeta_DefaultWins(defaultMeta, meta) ==
    IF defaultMeta.defined \/ meta.defined
    THEN Meta(spread(meta.map, defaultMeta.map))
    ELSE NoMeta

\* `this.defaultMeta || meta ? {...this.defaultMeta, ...meta} : undefined`
mergedMeta(defaultMeta, meta) ==
    IF defaultMeta.defined \/ meta.defined
    THEN Meta(spread(defaultMeta.map, meta.map))
    ELSE NoMeta

\* splitLogParams: the metadata of a call is its last argument when that is
\* an object, sanitized
splitLogParams(rawMeta) ==
    IF rawMeta.defined THEN Meta(sanitizeLogMeta(rawMeta.map)) ELSE NoMeta

boolOption(b) == IF b THEN "true" ELSE "false"

\* new ConsoleTransport(options): a transport with batchSize 1 and debounceMs
\* 0 unless given, and the hideMeta flag of its sink
ConsoleTransport(options) ==
    LET passed == [k \in DOMAIN options \cap {"label", "level", "enabled"} |-> options[k]]
                  @@ [batchSize  |-> IF Has(options, "batchSize") THEN options.batchSize ELSE 1,
                      debounceMs |-> IF Has(options, "debounceMs") THEN options.debounceMs ELSE 0]
    IN Constructor(passed)
       @@ [hideMeta |-> IF Has(options, "hideMeta") THEN options.hideMeta ELSE FALSE]

\* option objects of the transports a user hands to a LogClient
LoggerTransportInputs ==
    {NoOpts,
     [label |-> "t", enabled |-> "false"],
     [label |-> "t", level |-> ERROR],
     [level |-> FATAL, enabled |-> "true", batchSize |-> 2, debounceMs |-> 1]}

\* configuration objects given to the LogClient constructor
LoggerConfigInputs ==
     {[label |-> "app", level |-> l, transports |-> ts] :
          l \in {FATAL, DEBUG}, ts \in {<<1>>, <<1, 2>>, <<2, 1, 2>>}}
\cup {[disabled |-> TRUE, transports |-> ts] : ts \in {<<2>>, <<1, 2>>}}
\cup {[label |-> "", level |-> SILENT, disabled |-> FALSE, transports |-> <<1, 2>>]}
\cup {[label |-> "app", level |-> WARN, hideMeta |-> h, supressNoTransportWarning |-> s] :
          h, s \in BOOLEAN}
\cup {[transports |-> <<>>], NoOpts, [disabled |-> TRUE, level |-> FATAL, hideMeta |-> FALSE]}
\cup {[level |-> l, transports |-> <<1>>] : l \in Level}

\* levels of the logging methods called
LogMethodLevels == {FATAL, WARN, DEBUG}

\* levels given to LogClient.setLevel
SetLevelLoggerInputs == {FATAL, DEBUG}

\* value `config.k || fallback` of a string or level field (JavaScript ||:
\* undefined, "" and 0 are falsy)
orElse(config, k, falsy, fallback) ==
    IF Has(config, k) /\ config[k] \notin falsy THEN config[k] ELSE fallback

\* result of a LogClient call
Logged(h, lg, warned, calls, err) ==
    [heap |-> h, logger |-> lg, warned |-> warned, calls |-> calls, err |-> err]

\* mutant: the transports handed over are registered as they are
LogClient_NoInjection(h, config) ==
    LET label == orElse(config, "label", {""}, DefaultLabel)
        level == orElse(config, "level", {0}, INFO)
        hideMeta == orElse(config, "hideMeta", {FALSE}, FALSE)
        isDisabled == orElse(config, "disabled", {FALSE}, FALSE)
        supressNoTransportWarning == orElse(config, "supressNoTransportWarning", {FALSE}, FALSE)
        transports == IF Has(config, "transports") THEN config.transports ELSE <<>>
        defaultMeta == IF Has(config, "defaultMeta") /\ config.defaultMeta.defined
                       THEN Meta(sanitizeLogMeta(config.defaultMeta.map)) ELSE NoMeta
        this == [label |-> label, level |-> level, disabled |-> isDisabled, hideMeta |-> hideMeta,
                 defaultMeta |-> defaultMeta,
                 supressNoTransportWarning |-> supressNoTransportWarning]
    IN IF Len(transports) = 0
       THEN LET fallback == ConsoleTransport([label |-> label, level |-> level, hideMeta |-> hideMeta,
                                              enabled |-> boolOption(~isDisabled),
                                              batchSize |-> 1, debounceMs |-> 0])
                added == tm_add(Append(h, fallback), transports, Len(h) + 1)
            IN Logged(added.heap, this @@ [transports |-> added.transports],
                      ~supressNoTransportWarning, <<>>, "none")
       ELSE Logged(h, this @@ [transports |-> transports], FALSE, <<>>, "none")

\* mutant: the warning is printed whatever supressNoTransportWarning says
LogClient_AlwaysWarns(h, config) ==
    LET label == orElse(config, "label", {""}, DefaultLabel)
        level == orElse(config, "level", {0}, INFO)
        hideMeta == orElse(config, "hideMeta", {FALSE}, FALSE)
        isDisabled == orElse(config, "disabled", {FALSE}, FALSE)
        supressNoTransportWarning == orElse(config, "supressNoTransportWarning", {FALSE}, FALSE)
        transports == IF Has(config, "transports") THEN config.transports ELSE <<>>
        defaultMeta == IF Has(config, "defaultMeta") /\ config.defaultMeta.defined
                       THEN Meta(sanitizeLogMeta(config.defaultMeta.map)) ELSE NoMeta
        this == [label |-> label, level |-> level, disabled |-> isDisabled, hideMeta |-> hideMeta,
                 defaultMeta |-> defaultMeta,
                 supressNoTransportWarning |-> supressNoTransportWarning]
    IN IF Len(transports) = 0
       THEN LET fallback == ConsoleTransport([label |-> label, level |-> level, hideMeta |-> hideMeta,
                                              enabled |-> boolOption(~isDisabled),
                                              batchSize |-> 1, debounceMs |-> 0])
                added == tm_add(Append(h, fallback), transports, Len(h) + 1)
            IN Logged(added.heap, this @@ [transports |-> added.transports], TRUE, <<>>, "none")
       ELSE LET injected == tm_injectOptions(h, transports,
                                [enabled |-> boolOption(~isDisabled), label |-> label, level |-> level])
            IN Logged(injected.heap, this @@ [transports |-> transports], FALSE,
                      injected.calls, "none")

\* new LogClient(config): the resolved configuration, the manager over the
\* transports handed over (or over a fallback ConsoleTransport, announced
\* by a warning, when there are none), the options injected into them
LogClient(h, config) ==
    LET label == orElse(config, "label", {""}, DefaultLabel)
        level == orElse(config, "level", {0}, INFO)
        hideMeta == orElse(config, "hideMeta", {FALSE}, FALSE)
        isDisabled == orElse(config, "disabled", {FALSE}, FALSE)
        supressNoTransportWarning == orElse(config, "supressNoTransportWarning", {FALSE}, FALSE)
        transports == IF Has(config, "transports") THEN config.transports ELSE <<>>
        defaultMeta == IF Has(config, "defaultMeta") /\ config.defaultMeta.defined
                       THEN Meta(sanitizeLogMeta(config.defaultMeta.map)) ELSE NoMeta
        this == [label |-> label, level |-> level, disabled |-> isDisabled, hideMeta |-> hideMeta,
                 defaultMeta |-> defaultMeta,
                 supressNoTransportWarning |-> supressNoTransportWarning]
    IN IF Len(transports) = 0
       THEN LET fallback == ConsoleTransport([label |-> label, level |-> level, hideMeta |-> hideMeta,
                                              enabled |-> boolOption(~isDisabled),
                                              batchSize |-> 1, debounceMs |-> 0])
                added == tm_add(Append(h, fallback), transports, Len(h) + 1)
            IN Logged(added.heap, this @@ [transports |-> added.transports],
                      ~supressNoTransportWarning, <<>>, "none")
       ELSE LET injected == tm_injectOptions(h, transports,
                                [enabled |-> boolOption(~isDisabled), label |-> label, level |-> level])
            IN Logged(injected.heap, this @@ [transports |-> transports], FALSE,
                      injected.calls, "none")

shouldPublishByLogLevel(configuredLevel, messageLevel) ==
    IF configuredLevel = SILENT THEN FALSE ELSE messageLevel <= configuredLevel

\* mutant: the gate ignores the disabled flag
log_NoDisabledCheck(h, lg, id, level, rawMeta, outs) ==
    IF ~shouldPublishByLogLevel(lg.level, level)
    THEN Logged(h, lg, FALSE, <<>>, "none")
    ELSE LET entry == [id |-> id, level |-> level,
                       meta |-> mergedMeta(lg.defaultMeta, splitLogParams(rawMeta))]
             r == tm_addLogToQueue(h, lg.transports, entry, outs)
         IN Logged(r.heap, lg, FALSE, r.calls, r.err)

\* LogClient.log(level, ...): the gate of the logger, the metadata of the
\* entry, then the fan-out
log(h, lg, id, level, rawMeta, outs) ==
    IF ~(~lg.disabled /\ shouldPublishByLogLevel(lg.level, level))
    THEN Logged(h, lg, FALSE, <<>>, "none")
    ELSE LET entry == [id |-> id, level |-> level,
                       meta |-> mergedMeta(lg.defaultMeta, splitLogParams(rawMeta))]
             r == tm_addLogToQueue(h, lg.transports, entry, outs)
         IN Logged(r.heap, lg, FALSE, r.calls, r.err)

\* mutant: the level is pushed to the transports whatever the flag says
setLevel_AlwaysPush(h, lg, newLevel, pushToTransports) ==
    LET this == [lg EXCEPT !.level = newLevel]
        injected == tm_injectOptions(h, lg.transports, [level |-> newLevel])
    IN Logged(injected.heap, this, FALSE, injected.calls, "none")

\* LogClient.setLevel(newLevel, pushToTransports)
setLevel(h, lg, newLevel, pushToTransports) ==
    LET this == [lg EXCEPT !.level = newLevel]
    IN IF pushToTransports
       THEN LET injected == tm_injectOptions(h, lg.transports, [level |-> newLevel])
            IN Logged(injected.heap, this, FALSE, injected.calls, "none")
       ELSE Logged(h, this, FALSE, <<>>, "none")

\* -------------------------------------------------- logger: state machine
LogOp(name, i, config, level, r) ==
    [op |-> name, logger |-> i, config |-> config, level |-> level, calls |-> r.calls, err |-> r.err]

\* two console transports constructed by the user, no logger yet
InitLog ==
    /\ \E a, b \in LoggerTransportInputs : heap = <<ConsoleTransport(a), ConsoleTransport(b)>>
    /\ loggers = <<>>
    /\ warnings = 0
    /\ fnCall = NoCall
    /\ logOp = NoLogOp
    /\ nextId = 1
    /\ mgr = <<>>
    /\ mgrOp = NoMgrOp
    /\ IdleTransport

NewLogClient ==
    \E config \in LoggerConfigInputs :
        LET r == LogClient(heap, config)
        IN /\ Len(loggers) < MaxLoggers
           /\ heap' = r.heap
           /\ loggers' = Append(loggers, r.logger)
           /\ warnings' = warnings + (IF r.warned THEN 1 ELSE 0)
           /\ logOp' = LogOp("new", Len(loggers) + 1, config, NoLevel, r)
           /\ UNCHANGED <<tp, nextId, sinceAccept, lastOp, mgr, mgrOp, fnCall>>

Log ==
    \E i \in 1..Len(loggers), m \in LogMethodLevels :
        LET rawMeta == NoMeta
            r == log(heap, loggers[i], nextId, m, rawMeta, [id \in 1..Len(heap) |-> "ok"])
        IN /\ nextId <= MaxLogCalls
           /\ heap' = r.heap
           /\ loggers' = [loggers EXCEPT ![i] = r.logger]
           /\ warnings' = warnings + (IF r.warned THEN 1 ELSE 0)
           /\ logOp' = LogOp("log", i, [meta |-> rawMeta], m, r)
           /\ nextId' = nextId + 1
           /\ UNCHANGED <<tp, sinceAccept, lastOp, mgr, mgrOp, fnCall>>

SetLevel ==
    \E i \in 1..Len(loggers), l \in SetLevelLoggerInputs, push \in BOOLEAN :
        LET r == setLevel(heap, loggers[i], l, push)
        IN /\ heap' = r.heap
           /\ loggers' = [loggers EXCEPT ![i] = r.logger]
           /\ logOp' = LogOp("setLevel", i, [pushToTransports |-> push], l, r)
           /\ UNCHANGED <<tp, nextId, sinceAccept, lastOp, mgr, mgrOp, warnings, fnCall>>

NextLog ==
    \/ NewLogClient
    \/ Log

SpecLog == InitLog /\ [][NextLog]_vars

\* --------------------------------------------------- logger: child loggers
\* children created in one run
MaxChildren == 1

\* `logClient.transports.map(t => { t.configure(options); return t; })`
RECURSIVE configureEach(_, _, _, _)
configureEach(h, transports, i, options) ==
    IF i > Len(transports) THEN Managed(h, transports, <<>>, "none")
    ELSE LET id == transports[i]
             h2 == [h EXCEPT ![id] = configure(@, options)]
             rest == configureEach(h2, transports, i + 1, options)
         IN Managed(rest.heap, transports,
                    <<[id |-> id, op |-> "configure", err |-> "none"]>> \o rest.calls, "none")

\* mutant: the disabled flag is resolved with || like the other options
fromParent_DisabledOr(h, logClient, options) ==
    LET label == orElse(options, "label", {""}, logClient.label)
        level == orElse(options, "level", {0}, logClient.level)
        disabled == orElse(options, "disabled", {FALSE}, logClient.disabled)
        defaultMeta == IF Has(options, "defaultMeta") /\ options.defaultMeta.defined
                       THEN options.defaultMeta ELSE logClient.defaultMeta
        hideMeta == orElse(options, "hideMeta", {FALSE}, logClient.hideMeta)
        supressNoTransportWarning ==
            orElse(options, "supressNoTransportWarning", {FALSE}, logClient.supressNoTransportWarning)
        mapped == IF Has(options, "transports")
                  THEN Managed(h, options.transports, <<>>, "none")
                  ELSE configureEach(h, logClient.transports, 1,
                           [label |-> label, level |-> level, enabled |-> boolOption(~disabled)])
        mergedConfig == [label |-> label, level |-> level, defaultMeta |-> defaultMeta,
                         hideMeta |-> hideMeta, disabled |-> disabled,
                         transports |-> mapped.transports,
                         supressNoTransportWarning |-> supressNoTransportWarning]
        r == LogClient(mapped.heap, mergedConfig)
    IN Logged(r.heap, r.logger, r.warned, mapped.calls \o r.calls, r.err)

\* LogClient.fromParent(logClient, options): the merged configuration (an
\* option of the child, else the parent's), the parent's transports
\* reconfigured in place unless the child brings its own, then the
\* constructor
fromParent(h, logClient, options) ==
    LET label == orElse(options, "label", {""}, logClient.label)
        level == orElse(options, "level", {0}, logClient.level)
        disabled == IF Has(options, "disabled") THEN options.disabled ELSE ~(~logClient.disabled)
        defaultMeta == IF Has(options, "defaultMeta") /\ options.defaultMeta.defined
                       THEN options.defaultMeta ELSE logClient.defaultMeta
        hideMeta == orElse(options, "hideMeta", {FALSE}, logClient.hideMeta)
        supressNoTransportWarning ==
            orElse(options, "supressNoTransportWarning", {FALSE}, logClient.supressNoTransportWarning)
        mapped == IF Has(options, "transports")
                  THEN Managed(h, options.transports, <<>>, "none")
                  ELSE configureEach(h, logClient.transports, 1,
                           [label |-> label, level |-> level, enabled |-> boolOption(~disabled)])
        mergedConfig == [label |-> label, level |-> level, defaultMeta |-> defaultMeta,
                         hideMeta |-> hideMeta, disabled |-> disabled,
                         transports |-> mapped.transports,
                         supressNoTransportWarning |-> supressNoTransportWarning]
        r == LogClient(mapped.heap, mergedConfig)
    IN Logged(r.heap, r.logger, r.warned, mapped.calls \o r.calls, r.err)

\* configuration objects of the parent logger
ParentConfigInputs ==
    {[label |-> "app", level |-> DEBUG, transports |-> <<1, 2>>],
     [label |-> "app", level |-> WARN, hideMeta |-> TRUE, transports |-> <<1>>,
      defaultMeta |-> Meta([service |-> StringValue("s")])],
     [label |-> "app", disabled |-> TRUE, transports |-> <<1, 2>>]}

\* option objects of the first transport handed to the parent logger
ParentTransportInputs == LoggerTransportInputs

\* option objects given to fromParent
ChildOptionInputs ==
     {NoOpts, [label |-> "child"], [transports |-> <<2>>],
      [defaultMeta |-> Meta([module |-> StringValue("m")])]}
\cup {[level |-> l] : l \in {FATAL, ERROR}}
\cup {[disabled |-> b] : b \in BOOLEAN}
\cup {[hideMeta |-> b] : b \in BOOLEAN}

\* a parent logger constructed over two console transports
InitChild ==
    /\ \E a \in ParentTransportInputs, config \in ParentConfigInputs :
           LET h == <<ConsoleTransport(a), ConsoleTransport(NoOpts)>>
               r == LogClient(h, config)
           IN /\ heap = r.heap
              /\ loggers = <<r.logger>>
              /\ logOp = LogOp("new", 1, config, NoLevel, r)
    /\ warnings = 0
    /\ fnCall = NoCall
    /\ nextId = 1
    /\ mgr = <<>>
    /\ mgrOp = NoMgrOp
    /\ IdleTransport

Child ==
    \E i \in 1..Len(loggers), options \in ChildOptionInputs :
        LET r == fromParent(heap, loggers[i], options)
        IN /\ Len(loggers) < 1 + MaxChildren
           /\ heap' = r.heap
           /\ loggers' = Append(loggers, r.logger)
           /\ warnings' = warnings + (IF r.warned THEN 1 ELSE 0)
           /\ logOp' = LogOp("child", Len(loggers) + 1, [parent |-> i, options |-> options],
                             NoLevel, r)
           /\ UNCHANGED <<tp, nextId, sinceAccept, lastOp, mgr, mgrOp, fnCall>>

NextChild ==
    \/ Child
    \/ SetLevel

SpecChild == InitChild /\ [][NextChild]_vars

\* one logger: its level is changed and its logging methods are called
NextLevel ==
    \/ SetLevel
    \/ Log

SpecLevel == InitChild /\ [][NextLevel]_vars

\* ------------------------------------------------------- logger: metadata
\* the metadata objects over a set of keys with values of a set
MetaObjects(keys, values) == {Meta(map) : map \in UNION {[D -> values] : D \in SUBSET keys}}

\* defaultMeta given to the constructor: none, or an object over a and b
DefaultMetaInputs ==
    {NoMeta} \cup MetaObjects({"a", "b"}, {NumberValue("1"), ObjectValue("{x:1}")})

\* metadata given to a logging method: none, or an object over a and b
MergeMetaInputs ==
    {NoMeta} \cup MetaObjects({"a", "b"}, {StringValue("c"), NumberValue("0"), ObjectValue(JsonThrows)})

\* a DEBUG logger with a defaultMeta over one console transport
InitMeta ==
    /\ \E defaultMeta \in DefaultMetaInputs :
           LET h == <<ConsoleTransport([label |-> "t", level |-> DEBUG, enabled |-> "true"])>>
               config == [label |-> "app", level |-> DEBUG, transports |-> <<1>>,
                          defaultMeta |-> defaultMeta]
               r == LogClient(h, config)
           IN /\ heap = r.heap
              /\ loggers = <<r.logger>>
              /\ logOp = LogOp("new", 1, config, NoLevel, r)
    /\ warnings = 0
    /\ fnCall = NoCall
    /\ nextId = 1
    /\ mgr = <<>>
    /\ mgrOp = NoMgrOp
    /\ IdleTransport

\* a logging method called with a metadata object as its last argument
LogMeta ==
    \E i \in 1..Len(loggers), m \in {ERROR, WARN}, rawMeta \in MergeMetaInputs :
        LET r == log(heap, loggers[i], nextId, m, rawMeta, [id \in 1..Len(heap) |-> "ok"])
        IN /\ nextId <= MaxLogCalls
           /\ heap' = r.heap
           /\ loggers' = [loggers EXCEPT ![i] = r.logger]
           /\ warnings' = warnings + (IF r.warned THEN 1 ELSE 0)
           /\ logOp' = LogOp("log", i, [meta |-> rawMeta], m, r)
           /\ nextId' = nextId + 1
           /\ UNCHANGED <<tp, sinceAccept, lastOp, mgr, mgrOp, fnCall>>

NextMeta == LogMeta

SpecMeta == InitMeta /\ [][NextMeta]_vars

\* =============================================================== functions
\* a call of a function: its arguments, the value returned, the error raised
Called(fn, args, result, err) ==
    [fn |-> fn, args |-> args, result |-> result, err |-> err, message |-> <<>>]

\* a call that raised `new Error(message)`
Raised(fn, args, message) ==
    [fn |-> fn, args |-> args, result |-> <<>>, err |-> "Error", message |-> message]

\* nothing but the arguments of the calls to come
IdleLibrary ==
    /\ IdleTransport
    /\ NoManager
    /\ nextId = 1
    /\ loggers = <<>>
    /\ warnings = 0
    /\ logOp = NoLogOp

\* ------------------------------------------------- functions: level gate
\* a configured level and the level of a message
InitGate ==
    /\ \E currentLevel, messageLevel \in Level :
           fnCall = Called("none", <<currentLevel, messageLevel>>, <<>>, "none")
    /\ IdleLibrary

CallShouldPublishLog ==
    /\ fnCall' = Called("shouldPublishLog", fnCall.args,
                        <<shouldPublishLog(fnCall.args[1], fnCall.args[2])>>, "none")
    /\ UNCHANGED <<tp, nextId, sinceAccept, lastOp, managerVars, loggers, warnings, logOp>>

CallShouldPublishByLogLevel ==
    /\ fnCall' = Called("shouldPublishByLogLevel", fnCall.args,
                        <<shouldPublishByLogLevel(fnCall.args[1], fnCall.args[2])>>, "none")
    /\ UNCHANGED <<tp, nextId, sinceAccept, lastOp, managerVars, loggers, warnings, logOp>>

NextGate ==
    \/ CallShouldPublishLog
    \/ CallShouldPublishByLogLevel

SpecGate == InitGate /\ [][NextGate]_vars

\* ------------------------------------------------ functions: getLogLevel
\* a text is the sequence of its characters
LowerLetters == <<"a", "b", "c", "d", "e", "f", "g", "h", "i", "j", "k", "l", "m", "n", "o", "p", "q", "r", "s", "t", "u", "v", "w", "x", "y", "z">>
UpperLetters == <<"A", "B", "C", "D", "E", "F", "G", "H", "I", "J", "K", "L", "M", "N", "O", "P", "Q", "R", "S", "T", "U", "V", "W", "X", "Y", "Z">>

\* the position of a character in an alphabet, 0 when it is not in it
letterIndex(alphabet, c) ==
    IF \E i \in 1..Len(alphabet) : alphabet[i] = c
    THEN CHOOSE i \in 1..Len(alphabet) : alphabet[i] = c
    ELSE 0

\* String.prototype.toLowerCase on the characters of the texts used here
toLowerCase(text) ==
    [i \in 1..Len(text) |->
        IF letterIndex(UpperLetters, text[i]) > 0
        THEN LowerLetters[letterIndex(UpperLetters, text[i])] ELSE text[i]]

toUpperCase(text) ==
    [i \in 1..Len(text) |->
        IF letterIndex(LowerLetters, text[i]) > 0
        THEN UpperLetters[letterIndex(LowerLetters, text[i])] ELSE text[i]]

\* the case labels of the switch, by level
LevelNames ==
    <<<<"f", "a", "t", "a", "l">>,
      <<"e", "r", "r", "o", "r">>,
      <<"w", "a", "r", "n">>,
      <<"i", "n", "f", "o">>,
      <<"d", "e", "b", "u", "g">>,
      <<"s", "i", "l", "e", "n", "t">>>>

UnknownLogLevel == "Unknown log level: "

\* mutant: the message names the lowered text
getLogLevel_LoweredMessage(level) ==
    LET lowered == toLowerCase(level)
    IN IF \E l \in Level : LevelNames[l + 1] = lowered
       THEN Called("getLogLevel", <<level>>, <<CHOOSE l \in Level : LevelNames[l + 1] = lowered>>, "none")
       ELSE Raised("getLogLevel", <<level>>, <<UnknownLogLevel>> \o lowered)

\* getLogLevel(level): the switch over level.toLowerCase()
getLogLevel(level) ==
    LET lowered == toLowerCase(level)
    IN IF \E l \in Level : LevelNames[l + 1] = lowered
       THEN Called("getLogLevel", <<level>>, <<CHOOSE l \in Level : LevelNames[l + 1] = lowered>>, "none")
       ELSE Raised("getLogLevel", <<level>>, <<UnknownLogLevel>> \o level)

\* every spelling of a text in upper and lower case letters
Spellings(text) ==
    {[i \in 1..Len(text) |-> IF i \in U THEN toUpperCase(text)[i] ELSE text[i]] :
         U \in SUBSET (1..Len(text))}

\* texts that name no level
UnknownTexts ==
    {<<>>,
     <<"i", "n", "v", "a", "l", "i", "d">>,
     <<"1", "2", "3">>,
     <<"i", "n", "f">>,
     <<"d", "e", "b">>,
     <<"i", "n", "f", "o", "o">>,
     <<"w", "a", "r", "r", "n">>,
     <<" ", "i", "n", "f", "o", " ">>,
     <<"i", "n", "f", "o", " ">>,
     <<" ", "i", "n", "f", "o">>,
     <<"w", "a", "r", "n", "i", "n", "g">>,
     <<"0">>}

\* texts given to getLogLevel
LevelTexts ==
    UNION {Spellings(LevelNames[l + 1]) : l \in Level}
        \cup UNION {Spellings(text) : text \in UnknownTexts}

InitParse ==
    /\ \E text \in LevelTexts : fnCall = Called("none", <<text>>, <<>>, "none")
    /\ IdleLibrary

CallGetLogLevel ==
    /\ fnCall' = getLogLevel(fnCall.args[1])
    /\ UNCHANGED <<tp, nextId, sinceAccept, lastOp, managerVars, loggers, warnings, logOp>>

NextParse == CallGetLogLevel

SpecParse == InitParse /\ [][NextParse]_vars

\* ------------------------------------------- functions: sanitizeLogMeta
\* values of a metadata object: what typeof, String and JSON.stringify give
SanitizeValueInputs ==
    {MetaValue("null", "null", "null"), MetaValue("undefined", "undefined", "undefined"),
     NumberValue("0"), NumberValue("NaN"), StringValue(""), MetaValue("boolean", "false", "false"),
     StringValue("s"), NumberValue("42"), MetaValue("boolean", "true", "true"),
     MetaValue("function", "() => 1", "undefined"), MetaValue("symbol", "Symbol(t)", "undefined"),
     ObjectValue("{x:1}"), MetaValue("object", "1,2", "[1,2]"),
     ObjectValue(JsonThrows), MetaValue("bigint", "10", JsonThrows),
     MetaValue("object", StringThrows, JsonThrows)}

\* metadata objects given to sanitizeLogMeta
SanitizeInputs == UNION {[D -> SanitizeValueInputs] : D \in SUBSET {"a", "b"}}

InitSanitize ==
    /\ \E rawMeta \in SanitizeInputs : fnCall = Called("none", <<rawMeta>>, <<>>, "none")
    /\ IdleLibrary

CallSanitizeLogMeta ==
    /\ fnCall' = IF sanitizeLogMetaThrows(fnCall.args[1])
                 THEN Raised("sanitizeLogMeta", fnCall.args, <<"TypeError">>)
                 ELSE Called("sanitizeLogMeta", fnCall.args, <<sanitizeLogMeta(fnCall.args[1])>>, "none")
    /\ UNCHANGED <<tp, nextId, sinceAccept, lastOp, managerVars, loggers, warnings, logOp>>

NextSanitize == CallSanitizeLogMeta

SpecSanitize == InitSanitize /\ [][NextSanitize]_vars

\* ================================================================ claims
InEnqueueOrder(seq) == \A i, j \in 1..Len(seq) : i < j => seq[i].id < seq[j].id

IsPrefix(a, b) == Len(a) <= Len(b) /\ SubSeq(b, 1, Len(a)) = a

\* the step just taken was a call of addLogToQueue that accepted its entry
Accepted == lastOp'.op = "addLogToQueue" /\ nextId' = nextId + 1

\* the step just taken made exactly one sink call, with this batch
SentExactly(batch) == Len(lastOp'.sent) = 1 /\ lastOp'.sent[1].batch = batch

\* ---------------------------------------------------------------- C1
\* C1: every batch handed to the sink lists its entries in the order in
\* which they were enqueued, whatever the interleaving of addLogToQueue,
\* flush, timer expiry and failing deliveries, several of them in flight.
C1_SinkSeesEnqueueOrder ==
    \A i \in 1..Len(lastOp.sent) : InEnqueueOrder(lastOp.sent[i].batch)

\* ---------------------------------------------------------------- C2
\* C2: when a delivery fails (sendBatch throws, or its promise rejects) the
\* entries of the failed batch are back in the queue, in their order, in
\* front of whatever the live queue held; and a flush() hands the whole
\* queue, these entries included, to the sink again and, when that delivery
\* succeeds, they are delivered.
C2_FailedBatchRequeued ==
    [][ /\ (lastOp'.op = "reject" =>
                /\ tp'.queue = lastOp'.settled \o tp.queue
                /\ lastOp'.sent = <<>>)
        /\ (\A i \in 1..Len(lastOp'.sent) :
                lastOp'.sent[i].outcome = "throw" => tp'.queue = lastOp'.sent[i].batch)
        /\ (lastOp'.op = "flush" /\ tp.queue # <<>> =>
                /\ SentExactly(tp.queue)
                /\ (lastOp'.sent[1].outcome = "ok" =>
                        /\ tp'.delivered = tp.delivered \o tp.queue
                        /\ tp'.queue = <<>>))
      ]_vars

\* a rejected batch is back in front of entries accepted while it was in flight
C2_Witness ==
    /\ lastOp.op = "reject"
    /\ lastOp.settled # <<>>
    /\ IsPrefix(lastOp.settled, tp.queue)
    /\ Len(tp.queue) > Len(lastOp.settled)

\* ---------------------------------------------------------------- C3
\* C3: a failing sink never makes a call fail: the only error a call on the
\* transport raises is the one for an unset level, and a step in which
\* sendBatch threw (inside addLogToQueue, flush, disable, destroy or the
\* debounce timer) returns normally.
C3_SinkFailureNotPropagated ==
    /\ lastOp.err # "none" =>
           /\ lastOp.err = "config"
           /\ lastOp.op = "addLogToQueue"
           /\ tp.level = NoLevel
           /\ lastOp.sent = <<>>
    /\ \A i \in 1..Len(lastOp.sent) : lastOp.sent[i].outcome = "throw" => lastOp.err = "none"

\* sendBatch threw inside an addLogToQueue that reached the batch size
C3_Witness ==
    /\ lastOp.op = "addLogToQueue"
    /\ Len(lastOp.sent) = 1
    /\ lastOp.sent[1].outcome = "throw"
    /\ lastOp.err = "none"

\* ---------------------------------------------------------------- C4
\* C4: an accepted addLogToQueue that leaves the queue below batchSize makes
\* no sink call and appends its entry; the accepted call that brings the
\* queue to batchSize makes exactly one sink call, with the batchSize entries
\* in insertion order, and leaves no debounced flush pending; time passing
\* does not arm one.
C4_BatchSizeTriggersOneSyncFlush ==
    [][ /\ (Accepted /\ Len(tp.queue) + 1 < tp.batchSize =>
                /\ lastOp'.sent = <<>>
                /\ tp'.queue = Append(tp.queue, lastOp'.entry))
        /\ (Accepted /\ Len(tp.queue) + 1 = tp.batchSize =>
                /\ SentExactly(Append(tp.queue, lastOp'.entry))
                /\ Len(lastOp'.sent[1].batch) = tp.batchSize
                /\ tp'.timer = NoTimer)
        /\ (lastOp'.op = "tick" /\ tp.timer = NoTimer =>
                /\ tp'.timer = NoTimer
                /\ lastOp'.sent = <<>>)
        /\ (lastOp'.op = "timer" => tp.timer = 0)
      ]_vars

\* a batch of batchSize >= 2 consecutive entries was handed over inside addLogToQueue
C4_Witness ==
    /\ lastOp.op = "addLogToQueue"
    /\ Len(lastOp.sent) = 1
    /\ tp.batchSize >= 2
    /\ Len(lastOp.sent[1].batch) = tp.batchSize
    /\ \A i \in 1..(tp.batchSize - 1) :
           lastOp.sent[1].batch[i + 1].id = lastOp.sent[1].batch[i].id + 1
    /\ lastOp.sent[1].batch[tp.batchSize] = lastOp.entry
    /\ tp.timer = NoTimer

\* ---------------------------------------------------------------- C5
\* C5 as stated: when the debounce window ends with fewer than batchSize
\* entries buffered, the sink is called exactly once with all of them in
\* insertion order and the queue is empty afterwards.
C5_TimerFlushEmptiesQueue ==
    [][ (lastOp'.op = "timer" /\ tp.queue # <<>> /\ Len(tp.queue) < tp.batchSize) =>
            /\ SentExactly(tp.queue)
            /\ tp'.timer = NoTimer
            /\ tp'.queue = <<>>
      ]_vars

\* C5 amended: ... and the queue is empty afterwards unless that delivery
\* throws synchronously, in which case the queue holds the same entries again.
C5_TimerFlushSendsAll ==
    [][ (lastOp'.op = "timer" /\ tp.queue # <<>> /\ Len(tp.queue) < tp.batchSize) =>
            /\ SentExactly(tp.queue)
            /\ tp'.timer = NoTimer
            /\ tp'.queue = IF lastOp'.sent[1].outcome = "throw" THEN tp.queue ELSE <<>>
      ]_vars

\* the timer delivered fewer than batchSize entries and the queue is empty
C5_Witness ==
    /\ lastOp.op = "timer"
    /\ Len(lastOp.sent) = 1
    /\ lastOp.sent[1].outcome # "throw"
    /\ Len(lastOp.sent[1].batch) \in 1..(tp.batchSize - 1)
    /\ tp.queue = <<>>
    /\ tp.timer = NoTimer

\* ---------------------------------------------------------------- C6
\* C6: an accepted addLogToQueue that leaves the queue below batchSize
\* restarts the debounce window at debounceMs, and the timer hands a batch to
\* the sink only when at least debounceMs has passed since the entry accepted
\* last.
C6_DebounceWindowRestarts ==
    [][ /\ (Accepted /\ Len(tp.queue) + 1 < tp.batchSize =>
                /\ tp'.timer = tp.debounceMs
                /\ lastOp'.sent = <<>>)
        /\ (lastOp'.op = "timer" /\ lastOp'.sent # <<>> => sinceAccept >= tp.debounceMs)
      ]_vars

\* the timer delivered two entries after a window of at least one tick
C6_Witness ==
    /\ lastOp.op = "timer"
    /\ Len(lastOp.sent) = 1
    /\ Len(lastOp.sent[1].batch) >= 2
    /\ tp.debounceMs >= 1
    /\ sinceAccept >= tp.debounceMs

\* ---------------------------------------------------------------- C7
\* the level gate as the specification states it
Publishes(currentLevel, messageLevel) ==
    currentLevel # SILENT /\ messageLevel <= currentLevel

\* C7: on an enabled transport with a level, addLogToQueue appends the entry
\* (to the queue, or to the batch it flushes at once) exactly when the gate
\* lets it pass; otherwise the transport is left as it was and the sink is
\* not called.
C7_LevelGate ==
    [][ (lastOp'.op = "addLogToQueue" /\ tp.enabled = "true" /\ tp.level # NoLevel) =>
            IF Publishes(tp.level, lastOp'.entry.level)
            THEN \/ tp'.queue = Append(tp.queue, lastOp'.entry) /\ lastOp'.sent = <<>>
                 \/ SentExactly(Append(tp.queue, lastOp'.entry))
            ELSE tp' = tp /\ lastOp'.sent = <<>> /\ lastOp'.err = "none"
      ]_vars

\* a DEBUG entry was refused at level WARN while an entry waits for the timer
C7_Witness ==
    /\ lastOp.op = "addLogToQueue"
    /\ tp.enabled = "true"
    /\ tp.level = WARN
    /\ lastOp.entry.level = DEBUG
    /\ Len(tp.queue) = 1
    /\ tp.timer # NoTimer
    /\ lastOp.sent = <<>>

\* ---------------------------------------------------------------- C8
\* C8: on a transport whose enabled option is false, whatever its other
\* options, addLogToQueue raises no error and changes nothing.
C8_DisabledAddIsSilent ==
    [][ (lastOp'.op = "addLogToQueue" /\ tp.enabled = "false") =>
            /\ lastOp'.err = "none"
            /\ tp' = tp
            /\ lastOp'.sent = <<>>
      ]_vars

\* ---------------------------------------------------------------- C9
\* C9: flush() leaves no debounced flush pending; it hands a non-empty queue,
\* whole and whatever its length, to the sink in one call and makes no sink
\* call on an empty queue; afterwards only addLogToQueue arms the timer, and
\* the timer fires only when armed.
C9_FlushCancelsAndSendsAll ==
    [][ /\ (lastOp'.op = "flush" =>
                /\ tp'.timer = NoTimer
                /\ IF tp.queue # <<>>
                   THEN SentExactly(tp.queue)
                   ELSE lastOp'.sent = <<>> /\ tp' = [tp EXCEPT !.timer = NoTimer])
        /\ (tp.timer = NoTimer /\ tp'.timer # NoTimer => Accepted)
        /\ (lastOp'.op = "timer" => tp.timer = 0)
      ]_vars

\* flush() handed over a queue shorter than batchSize
C9_Witness ==
    /\ lastOp.op = "flush"
    /\ Len(lastOp.sent) = 1
    /\ Len(lastOp.sent[1].batch) < tp.batchSize
    /\ tp.timer = NoTimer
    /\ sinceAccept < tp.debounceMs

\* ---------------------------------------------------------------- C10
\* C10: disable() sets enabled to false and hands whatever is queued to the
\* sink at once, below the batch size and inside the debounce window too;
\* afterwards no debounced flush is pending.
C10_DisableFlushes ==
    [][ lastOp'.op = "disable" =>
            /\ tp'.enabled = "false"
            /\ tp'.timer = NoTimer
            /\ IF tp.queue # <<>> THEN SentExactly(tp.queue) ELSE lastOp'.sent = <<>>
      ]_vars

\* disable() handed over a short queue inside the debounce window
C10_Witness ==
    /\ lastOp.op = "disable"
    /\ tp.enabled = "false"
    /\ Len(lastOp.sent) = 1
    /\ Len(lastOp.sent[1].batch) < tp.batchSize
    /\ sinceAccept < tp.debounceMs
    /\ tp.timer = NoTimer
\* ---------------------------------------------------------------- C11
\* C11: once destroy() has returned, the sink is never called by the expiry
\* of the debounce timer, whatever calls follow (addLogToQueue included).
\* Read in SpecDestroyed, where every state follows a destroy().
C11_NoTimerDeliveryAfterDestroy ==
    ~(lastOp.op = "timer" /\ lastOp.sent # <<>>)

\* ---------------------------------------------------------------- C12
\* C12: whatever integers the constructor and configure() are given, in
\* every reachable state batchSize >= 1 and debounceMs >= 0; and a
\* configure() that does not supply batchSize (debounceMs) leaves the
\* value of batchSize (debounceMs) as it was.
C12_ClampedOptions ==
    /\ [](tp.batchSize >= 1 /\ tp.debounceMs >= 0)
    /\ [][ lastOp'.op = "configure" =>
               /\ (~Has(lastOp'.opts, "batchSize") => tp'.batchSize = tp.batchSize)
               /\ (~Has(lastOp'.opts, "debounceMs") => tp'.debounceMs = tp.debounceMs)
         ]_vars

\* configure() was given a batchSize below 1 and the option now reads 1
C12_Witness ==
    /\ lastOp.op = "configure"
    /\ Has(lastOp.opts, "batchSize")
    /\ lastOp.opts.batchSize < 1
    /\ tp.batchSize = 1

\* ---------------------------------------------------------------- C13
\* C13: configure() replaces the debounce scheduler exactly when it is
\* given a debounceMs whose clamped value differs from the current one:
\* then the pending flush is cancelled and scheduling uses the new interval
\* from then on; in every other case a pending flush stays armed with its
\* deadline unchanged. The scheduler's interval is always the debounceMs
\* option.
C13_ConfigureReplacesScheduler ==
    /\ [](tp.wait = tp.debounceMs)
    /\ [][ lastOp'.op = "configure" =>
               LET o == lastOp'.opts
               IN IF Has(o, "debounceMs") /\ Max(0, o.debounceMs) # tp.debounceMs
                  THEN /\ tp'.timer = NoTimer
                       /\ tp'.wait = Max(0, o.debounceMs)
                       /\ tp'.queue = tp.queue
                  ELSE /\ tp'.timer = tp.timer
                       /\ tp'.wait = tp.wait
         ]_vars

\* a configure() with another debounceMs cancelled the flush that was
\* pending for a queued entry
C13_Witness ==
    /\ lastOp.op = "configure"
    /\ Has(lastOp.opts, "debounceMs")
    /\ tp.debounceMs = MaxDebounce
    /\ tp.queue # <<>>
    /\ Len(tp.queue) < tp.batchSize
    /\ tp.timer = NoTimer
    /\ sinceAccept = 0

\* ---------------------------------------------------------------- C14
\* C14: setLogLevel changes the level option and nothing else: the queue,
\* the pending timer and every other field stay as they were and the sink
\* is not called. Entries already queued are handed over by the next flush
\* whatever the level is by then, and the level only decides whether a
\* later addLogToQueue accepts its entry.
C14_SetLogLevelOnlyLevel ==
    [][ /\ (lastOp'.op = "setLogLevel" =>
                /\ tp' = [tp EXCEPT !.level = lastOp'.opts.level]
                /\ lastOp'.sent = <<>>
                /\ lastOp'.err = "none")
        /\ (lastOp'.op \in {"flush", "timer"} /\ tp.queue # <<>> => SentExactly(tp.queue))
        /\ (lastOp'.op = "addLogToQueue" /\ tp.enabled = "true" /\ tp.level # NoLevel =>
                (Accepted <=> Publishes(tp.level, lastOp'.entry.level)))
      ]_vars

\* the level was set to SILENT while an entry was queued and its flush pending
C14_Witness ==
    /\ lastOp.op = "setLogLevel"
    /\ tp.level = SILENT
    /\ tp.queue # <<>>
    /\ tp.timer # NoTimer

\* ---------------------------------------------------------------- C15
Elems(seq) == {seq[i] : i \in 1..Len(seq)}

\* the step just taken took an entry out of the queue
LeftQueue == \E e \in Elems(tp.queue) : e \notin Elems(tp'.queue)

\* the catch handler of a rejected promise only puts the batch back
RejectOnlyRequeues ==
    lastOp'.op = "reject" =>
        /\ tp' = [tp EXCEPT !.queue = lastOp'.settled \o @,
                            !.inflight = tp'.inflight]
        /\ Len(tp'.inflight) = Len(tp.inflight) - 1
        /\ lastOp'.sent = <<>>

\* the catch block of a throwing sendBatch only puts the batch back
ThrowOnlyRequeues ==
    (\E i \in 1..Len(lastOp'.sent) : lastOp'.sent[i].outcome = "throw") =>
        /\ Len(lastOp'.sent) = 1
        /\ tp'.queue = lastOp'.sent[1].batch
        /\ tp'.timer = NoTimer

\* C15 as stated: handling a failed delivery only puts the batch back in
\* front of the queue, without a further sink call and without arming or
\* cancelling the timer; entries leave the queue only in an addLogToQueue
\* that reaches batchSize, at the expiry of an armed debounce window, or in
\* flush() or destroy().
C15_RequeuedWaitForListedTriggers ==
    [][ /\ RejectOnlyRequeues
        /\ ThrowOnlyRequeues
        /\ (LeftQueue =>
                /\ lastOp'.sent # <<>>
                /\ \/ lastOp'.op = "addLogToQueue" /\ Len(tp.queue) + 1 >= tp.batchSize
                   \/ lastOp'.op = "timer" /\ tp.timer = 0
                   \/ lastOp'.op \in {"flush", "destroy"})
      ]_vars

\* C15, amended: as above, and entries also leave the queue in disable().
C15_RequeuedWaitForFlush ==
    [][ /\ RejectOnlyRequeues
        /\ ThrowOnlyRequeues
        /\ (LeftQueue =>
                /\ lastOp'.sent # <<>>
                /\ \/ lastOp'.op = "addLogToQueue" /\ Len(tp.queue) + 1 >= tp.batchSize
                   \/ lastOp'.op = "timer" /\ tp.timer = 0
                   \/ lastOp'.op \in {"flush", "destroy", "disable"})
      ]_vars

\* a batch was requeued by a rejection while no timer was armed: it waits
C15_Witness ==
    /\ lastOp.op = "reject"
    /\ lastOp.settled # <<>>
    /\ tp.queue = lastOp.settled
    /\ tp.timer = NoTimer
    /\ lastOp.sent = <<>>

\* ---------------------------------------------------------------- C16
\* C16: remove(t) on a manager that holds t takes out the first
\* registration of t and no other, the remaining registrations keep their
\* order, and t.destroy() is called exactly once (no other transport is
\* called or changed); on a manager that does not hold t, remove(t) changes
\* nothing and calls nothing.
C16_RemoveFirstRegistration ==
    [][ mgrOp'.op = "remove" =>
            LET id == mgrOp'.id
            IN /\ \A other \in (1..Len(heap)) \ {id} : heap'[other] = heap[other]
               /\ IF \E k \in 1..Len(mgr) : mgr[k] = id
                  THEN /\ \E k \in 1..Len(mgr) :
                              /\ mgr[k] = id
                              /\ \A j \in 1..(k - 1) : mgr[j] # id /\ mgr'[j] = mgr[j]
                              /\ Len(mgr') = Len(mgr) - 1
                              /\ \A j \in k..Len(mgr') : mgr'[j] = mgr[j + 1]
                       /\ Len(mgrOp'.calls) = 1
                       /\ mgrOp'.calls[1].id = id
                       /\ mgrOp'.calls[1].op = "destroy"
                       /\ heap'[id].timer = NoTimer
                  ELSE /\ mgr' = mgr
                       /\ heap' = heap
                       /\ mgrOp'.calls = <<>>
      ]_vars

\* a transport registered twice, around another one, is still registered
\* once, behind the other one, after one remove()
C16_Witness ==
    /\ mgrOp.op = "remove"
    /\ Len(mgrOp.calls) = 1
    /\ Len(mgr) = 2
    /\ mgr[1] # mgrOp.id
    /\ mgr[2] = mgrOp.id

\* ---------------------------------------------------------------- C17
\* the transports called by the manager call just made, in call order
CalledIds == [i \in 1..Len(mgrOp'.calls) |-> mgrOp'.calls[i].id]

AllCallsAre(name) == \A i \in 1..Len(mgrOp'.calls) : mgrOp'.calls[i].op = name

\* C17 as stated: addLogToQueue, flush and setLogLevel of the manager call
\* that method once per registration, on every registration and in
\* registration order; destroy() calls destroy on every registration and
\* leaves the manager empty, so that a destroy() on the emptied manager
\* calls nothing.
C17_BroadcastReachesEveryRegistration ==
    [][ /\ (mgrOp'.op \in {"addLogToQueue", "flush", "setLogLevel"} =>
                /\ CalledIds = mgr
                /\ AllCallsAre(mgrOp'.op)
                /\ mgr' = mgr)
        /\ (mgrOp'.op = "destroy" =>
                /\ CalledIds = mgr
                /\ AllCallsAre("destroy")
                /\ mgr' = <<>>)
      ]_vars

\* C17, amended: a broadcast calls its method once per registration, in
\* registration order, up to and including the first transport whose call
\* raises; the only call that raises is addLogToQueue on a transport whose
\* level is unset, and the manager's call then raises that error. flush,
\* setLogLevel and destroy reach every registration, and destroy() leaves
\* the manager empty.
C17_BroadcastUntilMisuse ==
    [][ /\ (mgrOp'.op \in {"addLogToQueue", "flush", "setLogLevel", "destroy"} =>
                LET n == Len(mgrOp'.calls)
                IN /\ n <= Len(mgr)
                   /\ CalledIds = SubSeq(mgr, 1, n)
                   /\ AllCallsAre(mgrOp'.op)
                   /\ \A i \in 1..n :
                          mgrOp'.calls[i].err # "none" <=>
                              mgrOp'.op = "addLogToQueue" /\ heap[mgr[i]].level = NoLevel
                   /\ \A i \in 1..(n - 1) : mgrOp'.calls[i].err = "none"
                   /\ (n < Len(mgr) => n > 0 /\ mgrOp'.calls[n].err # "none")
                   /\ mgrOp'.err = (IF n > 0 THEN mgrOp'.calls[n].err ELSE "none")
                   /\ mgr' = (IF mgrOp'.op = "destroy" THEN <<>> ELSE mgr))
      ]_vars

\* an entry was handed to a transport registered twice and to another one
C17_Witness ==
    /\ mgrOp.op = "addLogToQueue"
    /\ mgrOp.err = "none"
    /\ Len(mgr) = 3
    /\ mgr[1] = mgr[3]
    /\ mgr[1] # mgr[2]
    /\ [i \in 1..Len(mgrOp.calls) |-> mgrOp.calls[i].id] = mgr

\* ---------------------------------------------------------------- C18
\* C18: injectOptions(partial) keeps every option a transport has set: a
\* label other than "", a level and an enabled flag (false included) are
\* the same after the call; a registered transport with label "", with no
\* level or with no enabled flag takes the value partial supplies for it;
\* transports that are not registered are not touched.
C18_InjectKeepsExplicitOptions ==
    [][ mgrOp'.op = "injectOptions" =>
            \A id \in 1..Len(heap) :
                LET old == heap[id]
                    new == heap'[id]
                    o == mgrOp'.opts
                IN IF \E k \in 1..Len(mgr) : mgr[k] = id
                   THEN /\ (old.label # "" => new.label = old.label)
                        /\ (old.level # NoLevel => new.level = old.level)
                        /\ (old.enabled # "undefined" => new.enabled = old.enabled)
                        /\ (old.label = "" /\ Has(o, "label") => new.label = o.label)
                        /\ (old.level = NoLevel /\ Has(o, "level") => new.level = o.level)
                        /\ (old.enabled = "undefined" /\ Has(o, "enabled") => new.enabled = o.enabled)
                   ELSE new = old
      ]_vars

\* an injection of label, level and enabled=true found a transport that had
\* set its label and enabled=false, and another one that took the label
C18_Witness ==
    /\ mgrOp.op = "injectOptions"
    /\ Has(mgrOp.opts, "label") /\ Has(mgrOp.opts, "enabled")
    /\ mgrOp.opts.enabled = "true"
    /\ Len(mgr) >= 2
    /\ \E i, j \in 1..Len(mgr) :
           /\ heap[mgr[i]].enabled = "false"
           /\ heap[mgr[i]].label = "t"
           /\ heap[mgr[j]].label = mgrOp.opts.label

\* ---------------------------------------------------------------- C19
\* the transports registered with a logger
TransportsOf(lg) == {lg.transports[k] : k \in 1..Len(lg.transports)}

C20_OneFallbackOneWarning ==
    [][ /\ (logOp'.op = "new" =>
                LET lg == loggers'[Len(loggers')]
                    config == logOp'.config
                IN IF ~Has(config, "transports") \/ config.transports = <<>>
                   THEN /\ Len(heap') = Len(heap) + 1
                        /\ SubSeq(heap', 1, Len(heap)) = heap
                        /\ lg.transports = <<Len(heap')>>
                        /\ heap'[Len(heap')].label = lg.label
                        /\ heap'[Len(heap')].level = lg.level
                        /\ heap'[Len(heap')].hideMeta = lg.hideMeta
                        /\ warnings' = warnings +
                               (IF Has(config, "supressNoTransportWarning")
                                   /\ config.supressNoTransportWarning THEN 0 ELSE 1)
                   ELSE /\ Len(heap') = Len(heap)
                        /\ warnings' = warnings)
        /\ (logOp'.op = "log" =>
                /\ warnings' = warnings
                /\ loggers' = loggers
                /\ Len(heap') = Len(heap))
      ]_vars

\* a logger constructed without transports has warned once and has just
\* handed an entry to its only transport, whose sink hides the metadata
C20_Witness ==
    /\ logOp.op = "log"
    /\ warnings = 1
    /\ Len(logOp.calls) = 1
    /\ LET lg == loggers[logOp.logger]
       IN /\ Len(lg.transports) = 1
          /\ lg.transports[1] > 2
          /\ heap[lg.transports[1]].hideMeta
          /\ heap[lg.transports[1]].label = "app"
          /\ heap[lg.transports[1]].delivered # <<>>

\* ---------------------------------------------------------------- C21
\* the entries a transport holds: queued, in flight or delivered
Held(t) ==
    Elems(t.queue) \cup Elems(t.delivered)
        \cup UNION {Elems(t.inflight[k]) : k \in 1..Len(t.inflight)}

\* the transports called by the logger operation, in the order of the calls
LogCalledIds == [k \in 1..Len(logOp'.calls) |-> logOp'.calls[k].id]

\* C21: a logging method of level m hands one entry of level m to the
\* transport manager of its logger, which calls addLogToQueue once per
\* registration, if and only if the logger is not disabled and
\* shouldPublish(logger level, m) holds; otherwise no transport changes in
\* any field (queue, timer, deliveries).
C21_LogGate ==
    [][ logOp'.op = "log" =>
            LET lg == loggers[logOp'.logger]
                m == logOp'.level
            IN IF ~lg.disabled /\ shouldPublishByLogLevel(lg.level, m)
               THEN /\ LogCalledIds = lg.transports
                    /\ \A k \in 1..Len(logOp'.calls) : logOp'.calls[k].op = "addLogToQueue"
                    /\ \A id \in 1..Len(heap) :
                           /\ \A e \in Held(heap'[id]) \ Held(heap[id]) :
                                  e.id = nextId /\ e.level = m
                           /\ id \notin TransportsOf(lg) => heap'[id] = heap[id]
                    /\ \A id \in TransportsOf(lg) :
                           heap[id].enabled = "true" /\ shouldPublishLog(heap[id].level, m)
                               => Held(heap'[id]) # Held(heap[id])
               ELSE /\ logOp'.calls = <<>>
                    /\ heap' = heap
      ]_vars

\* an enabled DEBUG logger has just logged at WARN and the entry was
\* delivered by one of its transports
C21_Witness ==
    /\ logOp.op = "log"
    /\ logOp.level = WARN
    /\ logOp.calls # <<>>
    /\ LET lg == loggers[logOp.logger]
       IN /\ ~lg.disabled
          /\ lg.level = DEBUG
          /\ \E id \in TransportsOf(lg) : \E e \in Elems(heap[id].delivered) : e.level = WARN

\* ---------------------------------------------------------------- C22
\* C22: a logger constructed with an explicit level L has L as its
\* resolved level, for every L of FATAL, ERROR, WARN, INFO, DEBUG and
\* SILENT, and a logging method called on it next is gated by L; INFO is
\* the level only when the configuration gives none.
C22_ExplicitLevelResolved ==
    [][ /\ (logOp'.op = "new" =>
                loggers'[Len(loggers')].level =
                    IF Has(logOp'.config, "level") THEN logOp'.config.level ELSE INFO)
        /\ (logOp'.op = "log" /\ logOp.op = "new" /\ logOp.logger = logOp'.logger
                /\ Has(logOp.config, "level") /\ ~loggers[logOp'.logger].disabled =>
                (logOp'.calls # <<>>) = shouldPublishByLogLevel(logOp.config.level, logOp'.level))
      ]_vars

\* ---------------------------------------------------------------- C23
\* the parent and the child of the fromParent call just made
ParentOfCall == loggers[logOp'.config.parent]
ChildOfCall == loggers'[Len(loggers')]

\* C23: a child created with no overrides has the resolved level, hideMeta
\* and defaultMeta of its parent; a setLevel on one logger leaves the
\* resolved level of every other logger (its parent, its children)
\* unchanged.
C23_ChildInheritsLevelIndependent ==
    [][ /\ (logOp'.op = "child" /\ logOp'.config.options = NoOpts =>
                /\ ChildOfCall.level = ParentOfCall.level
                /\ ChildOfCall.hideMeta = ParentOfCall.hideMeta
                /\ ChildOfCall.defaultMeta = ParentOfCall.defaultMeta)
        /\ (logOp'.op = "setLevel" =>
                \A j \in 1..Len(loggers) :
                    j # logOp'.logger => loggers'[j].level = loggers[j].level)
      ]_vars

\* ---------------------------------------------------------------- C24
\* C24: a child created with a level override L has the resolved level L,
\* for every L of FATAL, ERROR, WARN, INFO, DEBUG and SILENT; a child
\* created without a level override has the level of its parent.
C24_ChildLevelOverride ==
    [][ logOp'.op = "child" =>
            ChildOfCall.level =
                IF Has(logOp'.config.options, "level")
                THEN logOp'.config.options.level ELSE ParentOfCall.level
      ]_vars

\* ---------------------------------------------------------------- C25
\* C25: the disabled flag of a child is the override when the options give
\* one (true or false), else the disabled flag of its parent.
C25_ChildDisabled ==
    [][ logOp'.op = "child" =>
            ChildOfCall.disabled =
                IF Has(logOp'.config.options, "disabled")
                THEN logOp'.config.options.disabled ELSE ParentOfCall.disabled
      ]_vars

\* a child created with disabled = false under a disabled parent is
\* enabled, and the transports it shares with the parent are enabled
C25_Witness ==
    /\ logOp.op = "child"
    /\ logOp.config.options = [disabled |-> FALSE]
    /\ loggers[logOp.config.parent].disabled
    /\ ~loggers[logOp.logger].disabled
    /\ \A id \in TransportsOf(loggers[logOp.logger]) : heap[id].enabled = "true"

\* ---------------------------------------------------------------- C26
\* C26: the hideMeta of a child is the override when the options give one,
\* false under a parent whose hideMeta is true included, else the hideMeta
\* of its parent.
C26_ChildHideMeta ==
    [][ logOp'.op = "child" =>
            ChildOfCall.hideMeta =
                IF Has(logOp'.config.options, "hideMeta")
                THEN logOp'.config.options.hideMeta ELSE ParentOfCall.hideMeta
      ]_vars

\* ---------------------------------------------------------------- C27
\* C27: a child created without a transports override is registered with
\* the transports of its parent, and after the creation each of them has
\* the child's resolved label and level and is enabled exactly when the
\* child is not disabled.
C27_SharedTransportsFollowChild ==
    [][ logOp'.op = "child" /\ ~Has(logOp'.config.options, "transports") =>
            /\ ChildOfCall.transports = ParentOfCall.transports
            /\ loggers'[logOp'.config.parent].transports = ParentOfCall.transports
            /\ \A id \in TransportsOf(ChildOfCall) :
                   /\ heap'[id].label = ChildOfCall.label
                   /\ heap'[id].level = ChildOfCall.level
                   /\ heap'[id].enabled = boolOption(~ChildOfCall.disabled)
      ]_vars

\* ---------------------------------------------------------------- C28
\* C28: setLevel(L, pushToTransports) makes L the resolved level of the
\* logger, and a logging method called next is gated by L; with
\* pushToTransports false no transport changes; with pushToTransports true
\* every registered transport is configured under the injectOptions rule,
\* so that a transport whose level is set keeps it and one whose level is
\* unset takes L, and no other option of a transport changes.
C28_SetLevel ==
    [][ /\ (logOp'.op = "setLevel" =>
                LET lg == loggers[logOp'.logger]
                    L == logOp'.level
                IN /\ loggers'[logOp'.logger] = [lg EXCEPT !.level = L]
                   /\ IF logOp'.config.pushToTransports
                      THEN /\ LogCalledIds = lg.transports
                           /\ \A id \in 1..Len(heap) :
                                  heap'[id] =
                                      IF id \in TransportsOf(lg) /\ heap[id].level = NoLevel
                                      THEN [heap[id] EXCEPT !.level = L] ELSE heap[id]
                      ELSE /\ logOp'.calls = <<>>
                           /\ heap' = heap)
        /\ (logOp'.op = "log" /\ logOp.op = "setLevel" /\ logOp.logger = logOp'.logger
                /\ ~loggers[logOp'.logger].disabled =>
                (logOp'.calls # <<>>) = shouldPublishByLogLevel(logOp.level, logOp'.level))
      ]_vars

\* a logger was set to FATAL, its transports have the level they had
\* before, and a WARN call made next was not handed to them
C28_Witness ==
    /\ logOp.op = "log"
    /\ logOp.level = WARN
    /\ logOp.calls = <<>>
    /\ LET lg == loggers[logOp.logger]
       IN /\ lg.level = FATAL
          /\ ~lg.disabled
          /\ \A id \in TransportsOf(lg) : heap[id].level \in {DEBUG, ERROR}

\* ---------------------------------------------------------------- C29
\* C29: the metadata of the entry a logging method hands to the transports
\* is the logger's defaultMeta overlaid with the metadata of the call: its
\* keys are the keys of either, a key of the call carries the call's
\* (sanitized) value whether or not the defaultMeta has it, a key of the
\* defaultMeta alone carries the default value; a call without metadata
\* carries exactly the defaultMeta, and with neither a defaultMeta nor
\* metadata of the call the entry has no metadata.
C29_MergedMeta ==
    [][ logOp'.op = "log" =>
            LET lg == loggers[logOp'.logger]
                raw == logOp'.config.meta
                own == sanitizeLogMeta(raw.map)
            IN \A id \in TransportsOf(lg) : \A e \in Held(heap'[id]) \ Held(heap[id]) :
                   /\ e.meta.defined = (lg.defaultMeta.defined \/ raw.defined)
                   /\ DOMAIN e.meta.map = DOMAIN lg.defaultMeta.map \cup DOMAIN raw.map
                   /\ \A k \in DOMAIN e.meta.map :
                          e.meta.map[k] = IF k \in DOMAIN raw.map THEN own[k]
                                          ELSE lg.defaultMeta.map[k]
                   /\ (~raw.defined => e.meta = lg.defaultMeta)
      ]_vars

\* an entry was delivered whose key a, present in the defaultMeta too,
\* carries the value of the call, and whose key b comes from the
\* defaultMeta alone
C29_Witness ==
    /\ logOp.op = "log"
    /\ DOMAIN logOp.config.meta.map = {"a"}
    /\ LET lg == loggers[logOp.logger]
       IN /\ DOMAIN lg.defaultMeta.map = {"a", "b"}
          /\ \E e \in Elems(heap[1].delivered) :
                 /\ e.meta.map.a = StringValue("c")
                 /\ e.meta.map.a # lg.defaultMeta.map.a
                 /\ e.meta.map.b = lg.defaultMeta.map.b

\* ---------------------------------------------------------------- C30
\* C30: of two transports registered with one manager, a step of one (its
\* debounce timer expiring, a delivery in flight being fulfilled or
\* rejected, its sink failing) changes nothing of the other; the passing of
\* time changes no queue and no delivery; an addLogToQueue of the manager
\* calls every registered transport and does to each exactly what the same
\* entry and sink outcome do to that transport alone, so the entry reaches
\* the later transport when the sink of the earlier one throws or its
\* window is pending.
C30_TransportsIndependent ==
    [][ /\ (mgrOp'.op \in {"timer", "resolve", "reject"} =>
                \A j \in 1..Len(heap) : j # mgrOp'.id => heap'[j] = heap[j])
        /\ (mgrOp'.op = "tick" =>
                \A j \in 1..Len(heap) :
                    heap'[j] = [heap[j] EXCEPT !.timer = IF @ > 0 THEN @ - 1 ELSE @])
        /\ (mgrOp'.op = "addLogToQueue" /\ Has(mgrOp'.opts, "outs") =>
                /\ CalledIds = mgr
                /\ mgrOp'.err = "none"
                /\ \A j \in 1..Len(heap) :
                       heap'[j] = addLogToQueue(heap[j], mgrOp'.entry, mgrOp'.opts.outs[j]).t
                /\ (shouldPublishLog(heap[2].level, mgrOp'.entry.level)
                        => mgrOp'.entry \in Held(heap'[2])))
      ]_vars

\* the sink of the first transport threw during the fan-out, which put the
\* batch back in its queue, and the same entry is in the queue of the
\* second transport, whose debounce window is pending
C30_Witness ==
    /\ mgrOp.op = "addLogToQueue"
    /\ Has(mgrOp.opts, "outs")
    /\ mgrOp.opts.outs[1] = "throw"
    /\ heap[1].batchSize = 1
    /\ mgrOp.entry \in Elems(heap[1].queue)
    /\ heap[1].timer = NoTimer
    /\ mgrOp.entry \in Elems(heap[2].queue)
    /\ heap[2].timer > 0

\* ---------------------------------------------------------------- C31
\* C31: for every configured level and message level, the transport gate
\* (shouldPublishLog) and the logger gate (shouldPublishByLogLevel) return
\* false when the configured level is SILENT and otherwise whether the
\* message level is at most the configured level; called on the same pair
\* one after the other they return the same value.
C31_GateMatrix ==
    /\ [](fnCall.fn \in {"shouldPublishLog", "shouldPublishByLogLevel"} =>
              /\ fnCall.err = "none"
              /\ fnCall.result =
                     <<IF fnCall.args[1] = SILENT THEN FALSE
                       ELSE fnCall.args[2] <= fnCall.args[1]>>)
    /\ [][ fnCall.fn \in {"shouldPublishLog", "shouldPublishByLogLevel"}
               /\ fnCall'.fn \in {"shouldPublishLog", "shouldPublishByLogLevel"}
               /\ fnCall'.args = fnCall.args
               => fnCall'.result = fnCall.result ]_vars

\* the transport gate has refused a FATAL message under SILENT
C31_Witness ==
    /\ fnCall.fn = "shouldPublishLog"
    /\ fnCall.args = <<SILENT, FATAL>>
    /\ fnCall.result = <<FALSE>>

\* ---------------------------------------------------------------- C32
\* C32: reading `options` of a transport whose level or enabled is unset,
\* and calling addLogToQueue on such a transport, raises an error and
\* leaves the queue and the debounce timer as they were.
C32_UnsetOptionRaises ==
    [][ lastOp'.op \in {"options", "addLogToQueue"}
            /\ (tp.level = NoLevel \/ tp.enabled = "undefined") =>
            /\ lastOp'.err # "none"
            /\ tp'.queue = tp.queue
            /\ tp'.timer = tp.timer
      ]_vars

\* ---------------------------------------------------------------- C33
\* two characters that are the same letter in either case, or the same
\* character
SameLetter(c, d) ==
    \/ c = d
    \/ \E i \in 1..Len(LowerLetters) :
           {c, d} \subseteq {LowerLetters[i], UpperLetters[i]}

\* the level whose name is the text up to letter case, NoLevel without one
NamedLevel(text) ==
    LET named == {l \in Level :
                     /\ Len(LevelNames[l + 1]) = Len(text)
                     /\ \A i \in 1..Len(text) : SameLetter(text[i], LevelNames[l + 1][i])}
    IN IF named = {} THEN NoLevel ELSE CHOOSE l \in named : TRUE

\* C33: getLogLevel returns the level whose name is the text up to letter
\* case; for every other text (empty, a part of a name, a typo, a name with
\* spaces around it, digits) it returns no level and raises an error whose
\* message is "Unknown log level: " followed by the text as it was given.
C33_ParseOrRaise ==
    fnCall.fn = "getLogLevel" =>
        LET text == fnCall.args[1]
        IN IF NamedLevel(text) # NoLevel
           THEN /\ fnCall.err = "none"
                /\ fnCall.result = <<NamedLevel(text)>>
           ELSE /\ fnCall.err = "Error"
                /\ fnCall.result = <<>>
                /\ fnCall.message = <<UnknownLogLevel>> \o text

\* the typo "InFoO" was refused with a message that spells it as given
C33_Witness ==
    /\ fnCall.fn = "getLogLevel"
    /\ fnCall.args[1] = <<"I", "n", "F", "o", "O">>
    /\ fnCall.err = "Error"
    /\ fnCall.message = <<UnknownLogLevel, "I", "n", "F", "o", "O">>

\* ---------------------------------------------------------------- C34
\* a value the sanitizer returns as it is: falsy, or a string, a number or
\* a boolean
KeptAsIs(v) ==
    \/ v.type \in {"null", "undefined", "string", "number", "boolean"}
    \/ v.type = "bigint" /\ v.text = "0"

\* C34: the sanitizer never raises; its result has the keys of its input,
\* and under each key the value itself when that is falsy or a string, a
\* number or a boolean, the text of a function or a symbol, the
\* serialization of any other value and, when the serialization fails, a
\* string.
C34_SanitizerTotal ==
    fnCall.fn = "sanitizeLogMeta" =>
        /\ fnCall.err = "none"
        /\ LET rawMeta == fnCall.args[1]
               sanitized == fnCall.result[1]
           IN /\ DOMAIN sanitized = DOMAIN rawMeta
              /\ \A k \in DOMAIN rawMeta :
                     LET v == rawMeta[k]
                     IN IF KeptAsIs(v) THEN sanitized[k] = v
                        ELSE /\ sanitized[k].type = "string"
                             /\ v.type \in {"function", "symbol"} => sanitized[k].text = v.text
                             /\ v.type \notin {"function", "symbol"} /\ v.json # JsonThrows
                                    => sanitized[k].text = v.json

\* ---------------------------------------------------------------- C35
\* C35: the batch handed to the sink is the queue as it is when the flush
\* starts (with the entry just pushed, when addLogToQueue starts it), and
\* the live queue is emptied at that moment: unless the sink throws at
\* once, the queue is empty after the step, and a batch whose delivery is
\* asynchronous is in flight with exactly those entries. An entry accepted
\* while a delivery is in flight changes no batch in flight; it is in the
\* live queue or in the batch of the flush it started.
C35_SnapshotBatch ==
    [][ /\ (lastOp'.sent # <<>> =>
                LET atStart == IF lastOp'.op = "addLogToQueue"
                               THEN Append(tp.queue, lastOp'.entry) ELSE tp.queue
                    call == lastOp'.sent[1]
                IN /\ Len(lastOp'.sent) = 1
                   /\ call.batch = atStart
                   /\ call.outcome # "throw" => tp'.queue = <<>>
                   /\ call.outcome = "async" => tp'.inflight = Append(tp.inflight, atStart)
                   /\ call.outcome # "async" => tp'.inflight = tp.inflight)
        /\ (lastOp'.op = "addLogToQueue" /\ tp.inflight # <<>> /\ tp' # tp =>
                /\ SubSeq(tp'.inflight, 1, Len(tp.inflight)) = tp.inflight
                /\ \/ lastOp'.entry \in Elems(tp'.queue)
                   \/ /\ lastOp'.sent # <<>>
                      /\ lastOp'.entry \in Elems(lastOp'.sent[1].batch))
      ]_vars

\* an entry accepted while a batch is in flight waits in the live queue,
\* and the batch in flight does not hold it
C35_Witness ==
    /\ lastOp.op = "addLogToQueue"
    /\ Len(tp.inflight) = 1
    /\ lastOp.entry \in Elems(tp.queue)
    /\ lastOp.entry \notin Elems(tp.inflight[1])
    /\ tp.timer > 0

\* ---------------------------------------------------------------- C36
\* C36: injectOptions(partial) leaves every option of every transport for
\* which partial supplies no value as it was: without a label in partial
\* a label "" is still "", without a level an unset level is still unset,
\* without an enabled flag an unset flag is still unset.
C36_InjectLeavesUnsupplied ==
    [][ mgrOp'.op = "injectOptions" =>
            \A id \in 1..Len(heap) :
                /\ ~Has(mgrOp'.opts, "label") => heap'[id].label = heap[id].label
                /\ ~Has(mgrOp'.opts, "level") => heap'[id].level = heap[id].level
                /\ ~Has(mgrOp'.opts, "enabled") => heap'[id].enabled = heap[id].enabled
      ]_vars

\* ---------------------------------------------------------------- C37
\* the batches in flight, one after the other
RECURSIVE Flatten(_)
Flatten(batches) ==
    IF batches = <<>> THEN <<>> ELSE Head(batches) \o Flatten(Tail(batches))

\* every place an entry of the transport can be in
Places == tp.queue \o Flatten(tp.inflight) \o tp.delivered

\* C37: every entry the transport has accepted is in exactly one place,
\* once: the live queue, a batch in flight, or the entries delivered; the
\* transport holds no other entry.
C37_EntryInOnePlace ==
    /\ \A id \in 1..(nextId - 1) :
           Cardinality({i \in 1..Len(Places) : Places[i].id = id}) = 1
    /\ \A i \in 1..Len(Places) : Places[i].id \in 1..(nextId - 1)

\* of two accepted entries one is back in the queue after its delivery
\* failed and the other one is in flight
C37_Witness ==
    /\ nextId = 3
    /\ Len(tp.queue) = 1
    /\ Len(tp.inflight) = 1
    /\ tp.delivered = <<>>
    /\ tp.queue[1].id = 1
    /\ lastOp.op \in {"reject", "addLogToQueue", "flush", "timer"}

\* ---------------------------------------------------------------- C38
\* a debounced flush is armed whenever the queue is not empty
FlushArmed(t) == t.queue # <<>> => t.timer # NoTimer

\* the sink did not fail in the step
NoSinkFailure == \A i \in 1..Len(lastOp'.sent) : lastOp'.sent[i].outcome # "throw"

\* C38: an addLogToQueue, configure, setLogLevel, enable, disable or flush
\* call in which the sink does not fail, made on a transport on which a
\* debounced flush is armed whenever its queue is not empty, leaves the
\* transport so: the entries in the queue are handed to the sink by the
\* passage of time alone.
C38_QueuedMeansArmed ==
    [][ lastOp'.op \in {"addLogToQueue", "configure", "setLogLevel", "enable", "disable", "flush"}
            /\ NoSinkFailure /\ FlushArmed(tp) => FlushArmed(tp')
      ]_vars

\* ---------------------------------------------------------------- C39
\* C39: from a transport whose queue holds fewer than batchSize entries, a
\* step in which no delivery fails (the sink does not throw, no promise is
\* rejected) and batchSize is not lowered leads to a transport whose queue
\* holds fewer than batchSize entries again, and every batch the step hands
\* to the sink has at least one and at most batchSize entries. A new
\* transport has an empty queue, so this holds as long as no delivery has
\* failed and batchSize has not been lowered.
C39_QueueBelowBatchSize ==
    [][ /\ NoSinkFailure
        /\ lastOp'.op # "reject"
        /\ tp'.batchSize >= tp.batchSize
        /\ Len(tp.queue) < tp.batchSize
        => /\ Len(tp'.queue) < tp'.batchSize
           /\ \A i \in 1..Len(lastOp'.sent) :
                  Len(lastOp'.sent[i].batch) \in 1..tp'.batchSize
      ]_vars

\* the second entry filled a batch of two, which the sink took: the queue
\* is empty again
C39_Witness ==
    /\ lastOp.op = "addLogToQueue"
    /\ tp.batchSize = 2
    /\ Len(lastOp.sent) = 1
    /\ Len(lastOp.sent[1].batch) = 2
    /\ lastOp.sent[1].outcome = "ok"
    /\ tp.queue = <<>>

\* ---------------------------------------------------------------- C40
\* a transport that is not enabled holds no entry and has no flush pending
DisabledIsDrained(t) == t.enabled = "false" => t.queue = <<>> /\ t.timer = NoTimer

\* C40: a transport whose enabled flag is false, whether disable() or
\* configure({enabled: false}) set it, has an empty queue and no debounced
\* flush pending, as long as no delivery fails: a step in which no delivery
\* fails, taken by a transport of which this is true and whose queue is
\* below batchSize with its flush armed (the queue no failed delivery has
\* touched), leads to a transport of which it is true.
C40_DisabledMeansDrained ==
    [][ /\ NoSinkFailure
        /\ lastOp'.op # "reject"
        /\ FlushArmed(tp)
        /\ Len(tp.queue) < tp.batchSize
        /\ DisabledIsDrained(tp)
        => DisabledIsDrained(tp')
      ]_vars

====
